---- MODULE Spec2Model ----
(***************************************************************************)
(* Verification model of the styling and rendering core of the PPT         *)
(* generation pipeline:                                                    *)
(*   - parse_markdown / beautifier_node                                    *)
(*       (src/src/nodes/pipeline_2_generation/beautifier.py)               *)
(*   - surgical_injection_node                                             *)
(*       (src/src/nodes/pipeline_2_generation/injector.py)                 *)
(*                                                                         *)
(* Python strings that are scanned character by character are sequences of *)
(* one-character strings; Python indices are kept 0-based (At(s, i)).      *)
(* Python values whose type matters are tagged records (PyNone, PyStr).    *)
(***************************************************************************)
EXTENDS Integers, Sequences, FiniteSets, TLC

VARIABLES md, bt, inj, fr, pol, ct, ix, rc, ne

vars == <<md, bt, inj, fr, pol, ct, ix, rc, ne>>

----------------------------------------------------------------------------
(* Bounds *)

\* longest enumerated input string of parse_markdown
MaxLen == 5

\* most content fields of one manifest item
MaxFields == 2

\* most slides of a manifest handed to beautifier_node
MaxManifest == 2

\* most slides of a manifest handed to surgical_injection_node
MaxInjSlides == 2

\* most fields of one slide handed to surgical_injection_node
MaxInjFields == 2

\* most runs of a Style Specification handed to surgical_injection_node
MaxRuns == 2

\* most items of a bullet list handed to surgical_injection_node
MaxBullets == 2

\* the most slots a registry layout lists for the placeholder resolver
MaxSlots == 2

\* the most characters of a text fitted into a circle
MaxText == 5

\* the most layouts of a template handed to parse_template_node
MaxLayouts == 2

\* the most placeholders of one layout of the template
MaxShapes == 2

\* the most shapes of a slide handed to extract_superior_registry
MaxElements == 3

\* the most runs of the registry manager on one template path
MaxIndexRuns == 6

----------------------------------------------------------------------------
(* Python values *)

PyNone == [type |-> "NoneType"]

PyStr(chars) == [type |-> "str", chars |-> chars]

PyInt(n) == [type |-> "int", val |-> n]

\* a list value
PyList(items) == [type |-> "list", items |-> items]

\* a short string that is only compared, never scanned ("CENTER", "title")
Sym(name) == [type |-> "str", sym |-> name]

\* a dict value: entries in insertion order
PyDict(entries) == [type |-> "dict", entries |-> entries]

\* a key that a dict does not have
Absent == [type |-> "absent"]

\* dict.get(key, default) on a field that may be missing
Get(field, default) == IF field = Absent THEN default ELSE field

\* truthiness of a value taken from a dict (`x or default`, `if x`)
Truthy(x) ==
  CASE x = Absent -> FALSE
    [] x.type = "NoneType" -> FALSE
    [] x.type = "int" -> x.val # 0
    [] x.type = "list" -> x.items # <<>>
    [] OTHER -> TRUE

\* str(x): the text of a str is itself, str(None) is the four letters None
Str(x) == IF x.type = "NoneType" THEN <<"N", "o", "n", "e">> ELSE x.chars

\* s[i] with a 0-based index
At(s, i) == s[i + 1]

\* str.isalnum() of one character: letters and digits, over the characters
\* that occur in the modelled inputs
AlnumChars ==
  {"a", "b", "d", "e", "f", "g", "h", "i", "l", "n", "o", "r", "s", "t", "u",
   "y", "c", "B", "L", "N", "S", "P", "x", "1"}

IsAlnum(c) == c \in AlnumChars

\* str.startswith(prefix, i)
StartsWith(s, prefix, i) ==
  /\ i + Len(prefix) <= Len(s)
  /\ \A k \in 1..Len(prefix) : s[i + k] = prefix[k]

RECURSIVE SeqsUpTo(_, _)
\* all sequences over S of length at most n
SeqsUpTo(S, n) ==
  IF n = 0 THEN {<<>>}
  ELSE LET shorter == SeqsUpTo(S, n - 1)
       IN shorter \cup {Append(q, c) : q \in {r \in shorter : Len(r) = n - 1}, c \in S}

----------------------------------------------------------------------------
(* beautifier.py: markdown tokens and parse_markdown *)

MD_BOLD == <<"*", "*">>

MD_ITALIC == "*"

\* _is_boundary(text, idx)
IsBoundary(text, idx) ==
  IF idx <= 0 \/ idx >= Len(text) THEN TRUE
  ELSE ~(IsAlnum(At(text, idx - 1)) /\ IsAlnum(At(text, idx)))

PlainRun(chars) == [text |-> chars, bold |-> FALSE, italic |-> FALSE]

\* flush() without buf.clear(): the flushed text stays in the buffer
FlushKeepsBuffer(st) ==
  IF st.buf = <<>> THEN st
  ELSE [st EXCEPT !.runs = Append(st.runs,
                     [text |-> st.buf, bold |-> st.bold_on, italic |-> st.italic_on])]

\* flush(): append the buffer as one run with the current flags, unless empty
Flush(st) ==
  IF st.buf = <<>> THEN st
  ELSE [st EXCEPT !.runs = Append(st.runs,
                     [text |-> st.buf, bold |-> st.bold_on, italic |-> st.italic_on]),
                  !.buf = <<>>]

\* the scanner state at the top of the while loop
ScanInit(s) ==
  [s |-> s, i |-> 0, buf |-> <<>>, runs |-> <<>>,
   bold_on |-> FALSE, italic_on |-> FALSE]

\* ch == "\\" and i + 1 < n
AtEscape(st) ==
  /\ st.i < Len(st.s)
  /\ At(st.s, st.i) = "\\"
  /\ st.i + 1 < Len(st.s)

\* s.startswith(MD_BOLD, i) with both boundary checks passing
AtBold(st) ==
  /\ st.i < Len(st.s)
  /\ ~AtEscape(st)
  /\ StartsWith(st.s, MD_BOLD, st.i)
  /\ IsBoundary(st.s, st.i)
  /\ IsBoundary(st.s, st.i + Len(MD_BOLD))

\* ch == MD_ITALIC with both boundary checks passing (bold not taken)
AtItalic(st) ==
  /\ st.i < Len(st.s)
  /\ ~AtEscape(st)
  /\ ~AtBold(st)
  /\ At(st.s, st.i) = MD_ITALIC
  /\ IsBoundary(st.s, st.i)
  /\ IsBoundary(st.s, st.i + 1)

\* default branch: the character is appended literally
AtLiteral(st) ==
  /\ st.i < Len(st.s)
  /\ ~AtEscape(st)
  /\ ~AtBold(st)
  /\ ~AtItalic(st)

\* the escape branch appending s[i] (the backslash) instead of s[i + 1]
EscapeStepKeepsBackslash(st) ==
  [st EXCEPT !.buf = Append(st.buf, At(st.s, st.i)), !.i = st.i + 2]

EscapeStep(st) ==
  [st EXCEPT !.buf = Append(st.buf, At(st.s, st.i + 1)), !.i = st.i + 2]

BoldStep(st) ==
  LET f == Flush(st)
  IN [f EXCEPT !.bold_on = ~st.bold_on, !.i = st.i + Len(MD_BOLD)]

ItalicStep(st) ==
  LET f == Flush(st)
  IN [f EXCEPT !.italic_on = ~st.italic_on, !.i = st.i + 1]

LiteralStep(st) ==
  [st EXCEPT !.buf = Append(st.buf, At(st.s, st.i)), !.i = st.i + 1]

\* one iteration of the while loop
ScanStep(st) ==
  IF AtEscape(st) THEN EscapeStep(st)
  ELSE IF AtBold(st) THEN BoldStep(st)
  ELSE IF AtItalic(st) THEN ItalicStep(st)
  ELSE LiteralStep(st)

RECURSIVE JoinRunTexts(_)
\* "".join(r["text"] for r in runs)
JoinRunTexts(runs) ==
  IF runs = <<>> THEN <<>>
  ELSE Head(runs).text \o JoinRunTexts(Tail(runs))

\* the code after the while loop: final flush, unbalanced merge, empty guard
ScanResult(st) ==
  LET f == Flush(st)
  IN IF f.bold_on \/ f.italic_on THEN <<PlainRun(JoinRunTexts(f.runs))>>
     ELSE IF f.runs = <<>> THEN <<PlainRun(<<>>)>>
     ELSE f.runs

RECURSIVE ScanAll(_)
ScanAll(st) == IF st.i < Len(st.s) THEN ScanAll(ScanStep(st)) ELSE st

\* parse_markdown(text)
parse_markdown(text) ==
  IF text.type = "NoneType" THEN <<PlainRun(<<>>)>>
  ELSE IF Str(text) = <<>> THEN <<PlainRun(<<>>)>>
  ELSE ScanResult(ScanAll(ScanInit(Str(text))))

----------------------------------------------------------------------------
(* Inputs of parse_markdown *)

\* one letter, blank, the emphasis character and the escape character
MdAlphabet == {"a", " ", "*", "\\"}

\* the strings of the repository's tests and of the specification
ExUnbalanced ==
  <<"S", "t", "a", "r", "t", " ", "*", "*", "b", "o", "l", "d", " ",
    "o", "n", "l", "y">>

ExInWord ==
  <<"f", "i", "*", "s", "h", "*", "i", "n", "g", " ", "a", "n", "d", " ",
    "u", "n", "*", "*", "d", "e", "r", "*", "*", "s", "c", "o", "r", "e">>

ExEscaped ==
  <<"\\", "*", "n", "o", "t", " ", "i", "t", "a", "l", "i", "c", "\\", "*">>

ExBigLaunch ==
  <<"*", "*", "B", "i", "g", "*", "*", " ", "L", "a", "u", "n", "c", "h">>

ExPlainBody ==
  <<"P", "l", "a", "i", "n", " ", "b", "o", "d", "y", " ", "t", "e", "x", "t">>

MdExamples == {ExUnbalanced, ExInWord, ExEscaped, ExBigLaunch, ExPlainBody}

MdInputs ==
  {PyNone} \cup {PyStr(s) : s \in SeqsUpTo(MdAlphabet, MaxLen) \cup MdExamples}

----------------------------------------------------------------------------
(* parse_markdown as a step machine: md holds the call's frame *)

MdIdle == [pc |-> "idle"]

MdTypeOK == md.pc \in {"idle", "start", "scan", "done"}

\* the call parse_markdown(text)
MdCall(text) ==
  [pc |-> "start", text |-> text]

\* `if text is None` / `if not s`: early return of one empty run
MdReturnEmpty ==
  /\ md.pc = "start"
  /\ (md.text.type = "NoneType" \/ Str(md.text) = <<>>)
  /\ md' = [pc |-> "done", text |-> md.text, s |-> <<>>,
            st |-> ScanInit(<<>>), result |-> <<PlainRun(<<>>)>>]

\* s = str(text); the scanner's locals are initialised
MdBegin ==
  /\ md.pc = "start"
  /\ md.text.type # "NoneType"
  /\ Str(md.text) # <<>>
  /\ md' = [pc |-> "scan", text |-> md.text, s |-> Str(md.text),
            st |-> ScanInit(Str(md.text))]

MdEscape ==
  /\ md.pc = "scan"
  /\ AtEscape(md.st)
  /\ md' = [md EXCEPT !.st = EscapeStep(md.st)]

MdBold ==
  /\ md.pc = "scan"
  /\ AtBold(md.st)
  /\ md' = [md EXCEPT !.st = BoldStep(md.st)]

MdItalic ==
  /\ md.pc = "scan"
  /\ AtItalic(md.st)
  /\ md' = [md EXCEPT !.st = ItalicStep(md.st)]

MdLiteral ==
  /\ md.pc = "scan"
  /\ AtLiteral(md.st)
  /\ md' = [md EXCEPT !.st = LiteralStep(md.st)]

\* the loop has ended: flush, merge or return the runs
MdFinish ==
  /\ md.pc = "scan"
  /\ md.st.i >= Len(md.s)
  /\ md' = [pc |-> "done", text |-> md.text, s |-> md.s,
            st |-> Flush(md.st), result |-> ScanResult(md.st)]

MdInit ==
  /\ md \in {MdCall(t) : t \in MdInputs}
  /\ bt = [pc |-> "idle"]
  /\ inj = [pc |-> "idle"]
  /\ fr = [pc |-> "idle"]
  /\ pol = [pc |-> "idle"]
  /\ ct = [pc |-> "idle"]
  /\ ix = [pc |-> "idle"]
  /\ rc = [pc |-> "idle"]
  /\ ne = [pc |-> "idle"]

MdNext ==
  /\ \/ MdReturnEmpty
     \/ MdBegin
     \/ MdEscape
     \/ MdBold
     \/ MdItalic
     \/ MdLiteral
     \/ MdFinish
  /\ UNCHANGED <<bt, inj, fr, pol, ct, ix, rc, ne>>

SpecMarkdown == MdInit /\ [][MdNext]_vars

----------------------------------------------------------------------------
(* Dicts: insertion-ordered sequences of [key, value] entries *)

DictHas(d, k) == \E n \in 1..Len(d) : d[n].key = k

DictGet(d, k) == d[CHOOSE n \in 1..Len(d) : d[n].key = k].value

\* d[k] = v: a new key is appended, an existing key keeps its position
DictSet(d, k, v) ==
  IF DictHas(d, k)
  THEN [n \in 1..Len(d) |-> IF d[n].key = k THEN [key |-> k, value |-> v] ELSE d[n]]
  ELSE Append(d, [key |-> k, value |-> v])

DictKeys(d) == {d[n].key : n \in 1..Len(d)}

----------------------------------------------------------------------------
(* beautifier.py: constants *)

ROLE_TITLE == "TITLE"

ROLE_CONTENT == "CONTENT"

\* the main title of a title slide at half its size, below the title sizes
\* of the other slides
FONT_SIZE_TITLE_SLIDE_MAIN_HALVED == 44 \div 2

FONT_SIZE_TITLE_SLIDE_MAIN == 44

FONT_SIZE_TITLE_SLIDE_SUBTITLE == 28

FONT_SIZE_TITLE_SLIDE_FOOTER == 11

FONT_SIZE_TITLE_LARGE == 32

FONT_SIZE_TITLE_SMALL == 28

FONT_SIZE_BODY_LARGE == 22

FONT_SIZE_BODY_DEFAULT == 18

FONT_SIZE_CONTENT_LARGE == 16

FONT_SIZE_CONTENT_DEFAULT == 14

FONT_SIZE_FOOTER == 10

FONT_SIZE_FALLBACK == 16

\* area ratios are held in thousandths: 0.05, 0.3 and 0.15
AREA_THRESHOLD_TITLE == 50

AREA_THRESHOLD_BODY == 300

AREA_THRESHOLD_CONTENT == 150

\* geometry.get('area_ratio', 0.1)
DEFAULT_AREA_RATIO == 100

\* config.py: the default of the FORCE_FONT_SIZE_LAYOUTS setting
FORCE_FONT_SIZE_LAYOUTS == {"KPI_TILE", "METRIC_CARD"}

----------------------------------------------------------------------------
(* beautifier.py: role hints, font size and alignment *)

\* the characters of the key and role names the model uses
Chars(name) ==
  CASE name = "title" -> <<"t", "i", "t", "l", "e">>
    [] name = "subtitle" -> <<"s", "u", "b", "t", "i", "t", "l", "e">>
    [] name = "body" -> <<"b", "o", "d", "y">>
    [] name = "content" -> <<"c", "o", "n", "t", "e", "n", "t">>
    [] name = "footer" -> <<"f", "o", "o", "t", "e", "r">>
    [] name = "bullets" -> <<"b", "u", "l", "l", "e", "t", "s">>
    [] name = "header" -> <<"h", "e", "a", "d", "e", "r">>
    [] name = "headline" -> <<"h", "e", "a", "d", "l", "i", "n", "e">>
    [] name = "section-title" ->
         <<"s", "e", "c", "t", "i", "o", "n", "-", "t", "i", "t", "l", "e">>
    [] name = "tagline" -> <<"t", "a", "g", "l", "i", "n", "e">>
    [] name = "caption" -> <<"c", "a", "p", "t", "i", "o", "n">>
    [] name = "quote" -> <<"q", "u", "o", "t", "e">>
    [] name = "center" -> <<"c", "e", "n", "t", "e", "r">>
    [] name = "number" -> <<"n", "u", "m", "b", "e", "r">>
    [] name = "value" -> <<"v", "a", "l", "u", "e">>
    [] name = "metric" -> <<"m", "e", "t", "r", "i", "c">>
    [] name = "right" -> <<"r", "i", "g", "h", "t">>
    [] name = "Title" -> <<"T", "i", "t", "l", "e">>
    [] name = "kpi-value" -> <<"k", "p", "i", "-", "v", "a", "l", "u", "e">>
    [] name = "_note" -> <<"_", "n", "o", "t", "e">>
    [] name = "image_query" ->
         <<"i", "m", "a", "g", "e", "_", "q", "u", "e", "r", "y">>
    [] OTHER -> <<>>

\* str.lower() of one character, over the capitals the model uses
LowerChar(c) ==
  CASE c = "T" -> "t"
    [] c = "B" -> "b"
    [] c = "F" -> "f"
    [] c = "P" -> "p"
    [] OTHER -> c

Lower(s) == [k \in 1..Len(s) |-> LowerChar(s[k])]

\* `sub in s` for strings
Contains(s, sub) == \E k \in 0..(Len(s) - Len(sub)) : StartsWith(s, sub, k)

\* (role_hint or "").lower()
RoleOf(role_hint) ==
  IF role_hint.type = "NoneType" THEN <<>> ELSE Lower(role_hint.chars)

\* _determine_font_size with thresholds that include the boundary (>=)
determine_font_size_inclusive(role_hint, area_ratio, slide_role) ==
  LET role == RoleOf(role_hint)
      has(name) == Contains(role, Chars(name))
  IN IF slide_role = Sym(ROLE_TITLE)
     THEN IF has("title") \/ has("header") \/ has("headline")
            THEN FONT_SIZE_TITLE_SLIDE_MAIN
          ELSE IF has("subtitle") \/ has("body")
            THEN FONT_SIZE_TITLE_SLIDE_SUBTITLE
          ELSE IF has("footer") THEN FONT_SIZE_TITLE_SLIDE_FOOTER
          ELSE FONT_SIZE_TITLE_LARGE
     ELSE IF has("title") \/ has("header") \/ has("headline")
       THEN (IF area_ratio >= AREA_THRESHOLD_TITLE
               THEN FONT_SIZE_TITLE_LARGE ELSE FONT_SIZE_TITLE_SMALL)
     ELSE IF has("body")
       THEN (IF area_ratio >= AREA_THRESHOLD_BODY
               THEN FONT_SIZE_BODY_LARGE ELSE FONT_SIZE_BODY_DEFAULT)
     ELSE IF has("content")
       THEN (IF area_ratio >= AREA_THRESHOLD_CONTENT
               THEN FONT_SIZE_CONTENT_LARGE ELSE FONT_SIZE_CONTENT_DEFAULT)
     ELSE IF has("footer") THEN FONT_SIZE_FOOTER
     ELSE FONT_SIZE_FALLBACK

\* _determine_font_size(role_hint, area_ratio, slide_role)
determine_font_size(role_hint, area_ratio, slide_role) ==
  LET role == RoleOf(role_hint)
      has(name) == Contains(role, Chars(name))
  IN IF slide_role = Sym(ROLE_TITLE)
     THEN IF has("title") \/ has("header") \/ has("headline")
            THEN FONT_SIZE_TITLE_SLIDE_MAIN
          ELSE IF has("subtitle") \/ has("body")
            THEN FONT_SIZE_TITLE_SLIDE_SUBTITLE
          ELSE IF has("footer") THEN FONT_SIZE_TITLE_SLIDE_FOOTER
          ELSE FONT_SIZE_TITLE_LARGE
     ELSE IF has("title") \/ has("header") \/ has("headline")
       THEN (IF area_ratio > AREA_THRESHOLD_TITLE
               THEN FONT_SIZE_TITLE_LARGE ELSE FONT_SIZE_TITLE_SMALL)
     ELSE IF has("body")
       THEN (IF area_ratio > AREA_THRESHOLD_BODY
               THEN FONT_SIZE_BODY_LARGE ELSE FONT_SIZE_BODY_DEFAULT)
     ELSE IF has("content")
       THEN (IF area_ratio > AREA_THRESHOLD_CONTENT
               THEN FONT_SIZE_CONTENT_LARGE ELSE FONT_SIZE_CONTENT_DEFAULT)
     ELSE IF has("footer") THEN FONT_SIZE_FOOTER
     ELSE FONT_SIZE_FALLBACK

CenterKeys ==
  {"title", "header", "headline", "section-title", "tagline", "caption",
   "quote", "center"}

RightKeys == {"number", "value", "metric", "right"}

\* _alignment_for_role without its first test: the role hint alone decides
alignment_for_role_hint_only(role_hint, semantic_role, slide_role) ==
  LET role == RoleOf(role_hint)
  IN IF \E key \in CenterKeys : Contains(role, Chars(key)) THEN Sym("CENTER")
     ELSE IF \E key \in RightKeys : Contains(role, Chars(key)) THEN Sym("RIGHT")
     ELSE PyNone

\* _alignment_for_role(role_hint, semantic_role, slide_role)
alignment_for_role(role_hint, semantic_role, slide_role) ==
  LET role == RoleOf(role_hint)
  IN IF slide_role = Sym(ROLE_TITLE) \/ semantic_role = Sym("title")
       THEN Sym("CENTER")
     ELSE IF \E key \in CenterKeys : Contains(role, Chars(key)) THEN Sym("CENTER")
     ELSE IF \E key \in RightKeys : Contains(role, Chars(key)) THEN Sym("RIGHT")
     ELSE PyNone

\* _safe_int(val) returning 0 instead of None for a value that is no number
safe_int_or_zero(val) ==
  CASE val = Absent -> PyNone
    [] val.type = "int" -> val
    [] val.type = "str" /\ val.sym = "0" -> PyInt(0)
    [] val.type = "str" /\ val.sym = "1" -> PyInt(1)
    [] val.type = "str" /\ val.sym = "2" -> PyInt(2)
    [] val.type = "str" /\ val.sym = "3" -> PyInt(3)
    [] OTHER -> PyInt(0)

\* _safe_int(val) for the slot keys and slot ids of the model
safe_int(val) ==
  CASE val = Absent -> PyNone
    [] val.type = "int" -> val
    [] val.type = "str" /\ val.sym = "0" -> PyInt(0)
    [] val.type = "str" /\ val.sym = "1" -> PyInt(1)
    [] val.type = "str" /\ val.sym = "2" -> PyInt(2)
    [] val.type = "str" /\ val.sym = "3" -> PyInt(3)
    [] OTHER -> PyNone

\* str(n) of a slot id
IntStr(n) ==
  CASE n = 0 -> "0"
    [] n = 1 -> "1"
    [] n = 2 -> "2"
    [] n = 3 -> "3"
    [] OTHER -> "9"

----------------------------------------------------------------------------
(* Style Specifications, as beautifier_node builds them *)

\* {"runs": ..., "font_size": ..., "alignment": ..., "semantic_role": ...}
RunsStyle(runs, font_size, alignment, semantic_role) ==
  [type |-> "dict", runs |-> PyList(runs), bullets |-> Absent,
   font_size |-> font_size, alignment |-> alignment,
   semantic_role |-> semantic_role, vertical_anchor |-> Absent]

\* {"bullets": [{"runs": ...}, ...], "font_size": ..., ...}
BulletsStyle(bullet_items, font_size, alignment, semantic_role) ==
  [type |-> "dict", runs |-> Absent, bullets |-> PyList(bullet_items),
   font_size |-> font_size, alignment |-> alignment,
   semantic_role |-> semantic_role, vertical_anchor |-> Absent]

BulletItem(runs) == [type |-> "dict", runs |-> PyList(runs)]

----------------------------------------------------------------------------
(* Registry layouts and the writer's _semantic_mapping *)

Slot(slot_id, semantic_role, role_hint, area_ratio) ==
  [slot_id |-> slot_id, semantic_role |-> semantic_role,
   role_hint |-> role_hint,
   geometry |-> [area_ratio |-> area_ratio, is_circular |-> FALSE, radius |-> Absent]]

\* the registry of the specification's scenario: a title and a body region
LayoutA ==
  [layout_index |-> 0, layout_name |-> "Title and Content",
   slots |-> <<Slot(PyInt(0), "title", PyStr(Chars("title")), PyInt(100)),
               Slot(PyInt(1), "body", PyStr(Chars("body")), PyInt(400))>>]

\* a layout with forced font sizes, two body regions and a bullet region
LayoutKpi ==
  [layout_index |-> 1, layout_name |-> "KPI_TILE",
   slots |-> <<Slot(PyInt(0), "title", PyStr(Chars("Title")), PyInt(50)),
               Slot(PyInt(2), "body", PyStr(Chars("kpi-value")), PyInt(150)),
               Slot(PyInt(1), "body", PyStr(Chars("body")), PyInt(301)),
               Slot(PyInt(3), "bullets", PyStr(Chars("content")), Absent)>>]

Registries ==
  {[layouts |-> <<>>], [layouts |-> <<LayoutA>>],
   [layouts |-> <<LayoutKpi, LayoutA>>]}

\* writer.py: a slot of the role-based fallback carries no slot_id
FallbackSlot(semantic_role) ==
  [slot_id |-> Absent, semantic_role |-> semantic_role,
   role_hint |-> Absent, geometry |-> Absent]

RECURSIVE GroupByRole(_, _)
\* writer.py: available_roles[semantic_role].append(s) over the layout's slots
GroupByRole(slots, roles) ==
  IF slots = <<>> THEN roles
  ELSE LET s == Head(slots)
           old == IF DictHas(roles, s.semantic_role)
                  THEN DictGet(roles, s.semantic_role) ELSE <<>>
       IN GroupByRole(Tail(slots), DictSet(roles, s.semantic_role, Append(old, s)))

\* writer.py: the slot metadata by semantic role that writer_node attaches to
\* a manifest item as _semantic_mapping
WriterMapping(registry, l_idx, slide_role) ==
  LET found == {n \in 1..Len(registry.layouts) :
                  registry.layouts[n].layout_index = l_idx}
      slots == IF found = {} THEN <<>>
               ELSE registry.layouts[CHOOSE n \in found : \A m \in found : n <= m].slots
  IN IF slots # <<>> THEN GroupByRole(slots, <<>>)
     ELSE IF slide_role = ROLE_TITLE
       THEN <<[key |-> "title", value |-> <<FallbackSlot("title")>>]>>
     ELSE <<[key |-> "title", value |-> <<FallbackSlot("title")>>],
            [key |-> "bullets", value |-> <<FallbackSlot("bullets")>>]>>

----------------------------------------------------------------------------
(* beautifier.py: _beautify_semantic_content and beautifier_node *)

SemanticKeys == {"title", "bullets", "body", "image_query", "footer"}

RECURSIVE ParseBullets(_)
\* [{"runs": parse_markdown(str(bullet_text))} for bullet_text in raw_content]
ParseBullets(items) ==
  IF items = <<>> THEN <<>>
  ELSE <<BulletItem(parse_markdown(PyStr(Str(Head(items)))))>>
       \o ParseBullets(Tail(items))

\* slots[0] replaced by slots[-1]
LastSlot(slots) == slots[Len(slots)]

\* slot = slots[0]: the first slot of the role
FirstSlot(slots) == slots[1]

\* the body of the loop of _beautify_semantic_content for one field
BeautifySemanticField(semantic_role, raw_content, layout, slide_role, semantic_mapping, styled_content) ==
  LET slots == IF DictHas(semantic_mapping, semantic_role)
               THEN DictGet(semantic_mapping, semantic_role) ELSE <<>>
      slot == FirstSlot(slots)
      role_hint == Get(slot.role_hint, PyStr(Chars(semantic_role)))
      geometry == Get(slot.geometry, [area_ratio |-> Absent])
      area_ratio == Get(geometry.area_ratio, PyInt(DEFAULT_AREA_RATIO)).val
      font_size == IF layout.layout_name \in FORCE_FONT_SIZE_LAYOUTS
                   THEN PyInt(determine_font_size(role_hint, area_ratio, Sym(slide_role)))
                   ELSE PyNone
      alignment == alignment_for_role(role_hint, Sym(semantic_role), Sym(slide_role))
      style == IF semantic_role = "bullets" /\ raw_content.type = "list"
               THEN BulletsStyle(ParseBullets(raw_content.items), font_size,
                                 alignment, Sym(semantic_role))
               ELSE RunsStyle(parse_markdown(PyStr(Str(raw_content))), font_size,
                              alignment, Sym(semantic_role))
      anchored == IF slide_role = ROLE_TITLE /\ semantic_role = "title"
                  THEN [style EXCEPT !.vertical_anchor = Sym("MIDDLE")]
                  ELSE style
  IN IF StartsWith(Chars(semantic_role), <<"_">>, 0) THEN styled_content
     ELSE IF semantic_role = "image_query" THEN styled_content
     ELSE IF slots = <<>> THEN styled_content
     ELSE IF slot.slot_id \in {Absent, PyNone} THEN styled_content
     ELSE DictSet(styled_content, IntStr(slot.slot_id.val), anchored)

RECURSIVE beautify_semantic_content(_, _, _, _, _)
\* _beautify_semantic_content(semantic_content, layout, slide_role, slide_idx,
\* semantic_mapping), with the styled_content built so far
beautify_semantic_content(semantic_content, layout, slide_role, semantic_mapping, styled_content) ==
  IF semantic_content = <<>> THEN styled_content
  ELSE beautify_semantic_content(Tail(semantic_content), layout, slide_role,
         semantic_mapping,
         BeautifySemanticField(Head(semantic_content).key,
                               Head(semantic_content).value, layout, slide_role,
                               semantic_mapping, styled_content))

RECURSIVE SlotMetaById(_, _)
\* slot_meta_by_id: the slots whose slot_id is an integer, last one wins
SlotMetaById(slots_meta, by_id) ==
  IF slots_meta = <<>> THEN by_id
  ELSE LET sid == safe_int(Head(slots_meta).slot_id)
       IN SlotMetaById(Tail(slots_meta),
            IF sid = PyNone THEN by_id
            ELSE DictSet(by_id, sid.val, Head(slots_meta)))

\* the body of the legacy loop of beautifier_node for one slot key
BeautifyLegacyField(slot_key, raw_text, slot_meta_by_id, slide_role, styled_content) ==
  LET slot_id_int == safe_int(Sym(slot_key))
      has_meta == slot_id_int # PyNone /\ DictHas(slot_meta_by_id, slot_id_int.val)
      slot_meta == DictGet(slot_meta_by_id, slot_id_int.val)
      text_str == IF raw_text = PyNone THEN <<>> ELSE Str(raw_text)
      runs == parse_markdown(PyStr(text_str))
      role_hint == Get(slot_meta.role_hint, PyStr(<<>>))
      geometry == Get(slot_meta.geometry, [area_ratio |-> Absent])
      area_ratio == Get(geometry.area_ratio, PyInt(DEFAULT_AREA_RATIO)).val
      font_size == IF has_meta
                   THEN determine_font_size(role_hint, area_ratio, Sym(slide_role))
                   ELSE FONT_SIZE_FALLBACK
      alignment == IF has_meta THEN alignment_for_role(role_hint, PyNone, PyNone)
                   ELSE Sym("LEFT")
  IN DictSet(styled_content, slot_key,
             RunsStyle(runs, PyInt(font_size), alignment, Absent))

RECURSIVE beautify_legacy_content(_, _, _, _)
beautify_legacy_content(slide_content, slot_meta_by_id, slide_role, styled_content) ==
  IF slide_content = <<>> THEN styled_content
  ELSE beautify_legacy_content(Tail(slide_content), slot_meta_by_id, slide_role,
         BeautifyLegacyField(Head(slide_content).key, Head(slide_content).value,
                             slot_meta_by_id, slide_role, styled_content))

\* layout_by_idx.get(layout_idx): a later layout with the same index wins
LayoutByIdx(layouts, layout_idx) ==
  LET found == {n \in 1..Len(layouts) : layouts[n].layout_index = layout_idx}
  IN IF found = {} THEN PyNone
     ELSE layouts[CHOOSE n \in found : \A m \in found : m <= n]

\* one iteration of the loop over the manifest: the beautified item
BeautifySlide(slide, layouts) ==
  LET default_layout == layouts[1]
      looked_up == LayoutByIdx(layouts, slide.layout_index)
      layout == IF looked_up = PyNone THEN default_layout ELSE looked_up
      layout_idx == IF looked_up = PyNone THEN default_layout.layout_index
                    ELSE slide.layout_index
      slide_role == Get(slide.slide_role, Sym(ROLE_CONTENT)).sym
      slide_content == IF Truthy(slide.content) /\ slide.content.type = "dict"
                       THEN slide.content.entries ELSE <<>>
      is_semantic == \E key \in SemanticKeys : DictHas(slide_content, key)
  IN IF is_semantic
     THEN [layout_index |-> layout_idx,
           content |-> beautify_semantic_content(slide_content, layout, slide_role,
                         Get(slide.semantic_mapping, PyDict(<<>>)).entries, <<>>),
           slide_role |-> slide_role,
           is_semantic |-> TRUE]
     ELSE [layout_index |-> layout_idx,
           content |-> beautify_legacy_content(slide_content,
                         SlotMetaById(layout.slots, <<>>), slide_role, <<>>),
           slide_role |-> slide_role,
           is_semantic |-> FALSE]

----------------------------------------------------------------------------
(* Inputs of beautifier_node *)

TextValues == {PyNone, PyStr(<<>>), PyStr(ExBigLaunch), PyStr(ExPlainBody)}

BulletValues ==
  {PyList(<<>>), PyList(<<PyStr(ExBigLaunch)>>), PyList(<<PyNone, PyStr(<<"a">>)>>),
   PyStr(ExPlainBody)}

SemanticEntries ==
  {[key |-> k, value |-> v] :
     k \in {"title", "body", "footer", "image_query", "_note"}, v \in TextValues}
  \cup {[key |-> "bullets", value |-> v] : v \in BulletValues}

LegacyEntries ==
  {[key |-> k, value |-> v] : k \in {"0", "1", "x"}, v \in TextValues}

\* the dicts with at most n entries over the given entries: keys are distinct
DictsUpTo(entries, n) ==
  {d \in SeqsUpTo(entries, n) :
     \A a, b \in 1..Len(d) : a # b => d[a].key # d[b].key}

Contents ==
  {Absent, PyStr(ExPlainBody)}
  \cup {PyDict(d) : d \in DictsUpTo(SemanticEntries, MaxFields)}
  \cup {PyDict(d) : d \in DictsUpTo(LegacyEntries, MaxFields)}

\* the manifest items offered to beautifier_node: with the mapping
\* writer_node attaches for the item's layout, or without a mapping
ManifestItems(registry) ==
  {[layout_index |-> l, slide_role |-> r, content |-> c, semantic_mapping |-> m] :
     l \in {0, 1, 7}, r \in {Absent, Sym(ROLE_TITLE)}, c \in Contents,
     m \in {Absent, PyNone}}

\* writer_node's mapping for the item, when the item carries one
WithMapping(item, registry) ==
  IF item.semantic_mapping = Absent THEN item
  ELSE [item EXCEPT !.semantic_mapping =
          PyDict(WriterMapping(registry, item.layout_index,
                               Get(item.slide_role, Sym(ROLE_CONTENT)).sym))]

----------------------------------------------------------------------------
(* beautifier_node as a step machine: bt holds the call's frame.  Of the    *)
(* list `beautified` the frame keeps the length and, until the end of the   *)
(* loop body, the item just appended with the manifest item it was made    *)
(* from.                                                                   *)

BtCall(has_manifest, has_registry, registry, n) ==
  [pc |-> "start", has_manifest |-> has_manifest, has_registry |-> has_registry,
   registry |-> registry, manifest_len |-> n]

\* raise ValueError("State must contain 'manifest' and 'registry' keys.")
BtRaiseMissingKey ==
  /\ bt.pc = "start"
  /\ ~(bt.has_manifest /\ bt.has_registry)
  /\ bt' = [bt EXCEPT !.pc = "raised"]

\* raise ValueError("Registry contains no layouts - cannot beautify")
BtRaiseNoLayouts ==
  /\ bt.pc = "start"
  /\ bt.has_manifest /\ bt.has_registry
  /\ bt.registry.layouts = <<>>
  /\ bt' = [bt EXCEPT !.pc = "raised"]

\* the loop starts without the check that the registry has a layout
BtEnterLoopUnchecked ==
  /\ bt.pc = "start"
  /\ bt.has_manifest /\ bt.has_registry
  /\ bt' = [pc |-> "loop", registry |-> bt.registry,
            manifest_len |-> bt.manifest_len, slide_idx |-> 0,
            beautified_len |-> 0]

\* the inputs are valid: default_layout, beautified = [], the loop starts
BtEnterLoop ==
  /\ bt.pc = "start"
  /\ bt.has_manifest /\ bt.has_registry
  /\ bt.registry.layouts # <<>>
  /\ bt' = [pc |-> "loop", registry |-> bt.registry,
            manifest_len |-> bt.manifest_len, slide_idx |-> 0,
            beautified_len |-> 0]

\* one iteration of `for slide_idx, slide in enumerate(manifest)`
BtSlide ==
  /\ bt.pc = "loop"
  /\ bt.slide_idx < bt.manifest_len
  /\ \E item \in ManifestItems(bt.registry) :
       LET slide == WithMapping(item, bt.registry)
       IN bt' = [pc |-> "appended", registry |-> bt.registry,
                 manifest_len |-> bt.manifest_len,
                 slide_idx |-> bt.slide_idx,
                 beautified_len |-> bt.beautified_len + 1,
                 slide |-> slide,
                 beautified_last |-> BeautifySlide(slide, bt.registry.layouts)]

\* the end of the loop body: the loop variables are rebound for the next item
BtContinue ==
  /\ bt.pc = "appended"
  /\ bt' = [pc |-> "loop", registry |-> bt.registry,
            manifest_len |-> bt.manifest_len, slide_idx |-> bt.slide_idx + 1,
            beautified_len |-> bt.beautified_len]

\* return {"manifest": beautified}
BtReturn ==
  /\ bt.pc = "loop"
  /\ bt.slide_idx = bt.manifest_len
  /\ bt' = [bt EXCEPT !.pc = "done"]

BtInit ==
  /\ bt \in {BtCall(hm, hr, reg, n) :
               hm \in BOOLEAN, hr \in BOOLEAN, reg \in Registries,
               n \in 0..MaxManifest}
  /\ md = MdIdle
  /\ inj = [pc |-> "idle"]
  /\ fr = [pc |-> "idle"]
  /\ pol = [pc |-> "idle"]
  /\ ct = [pc |-> "idle"]
  /\ ix = [pc |-> "idle"]
  /\ rc = [pc |-> "idle"]
  /\ ne = [pc |-> "idle"]

BtNext ==
  /\ \/ BtRaiseMissingKey
     \/ BtRaiseNoLayouts
     \/ BtEnterLoop
     \/ BtSlide
     \/ BtContinue
     \/ BtReturn
  /\ UNCHANGED <<md, inj, fr, pol, ct, ix, rc, ne>>

SpecBeautifier == BtInit /\ [][BtNext]_vars

BtTypeOK == bt.pc \in {"idle", "start", "loop", "appended", "done", "raised"}

----------------------------------------------------------------------------
(* injector.py: template header detection *)

\* the characters that \d, \s and \w match, over the modelled texts
DigitChars == {"0", "1", "2", "4"}

SpaceChars == {" ", "\n"}

WordChars == AlnumChars \cup DigitChars \cup {"_", "C", "H", "J", "k"}

RECURSIVE LStrip(_)
LStrip(s) ==
  IF s # <<>> /\ Head(s) \in SpaceChars THEN LStrip(Tail(s)) ELSE s

RECURSIVE RStrip(_)
RStrip(s) ==
  IF s # <<>> /\ s[Len(s)] \in SpaceChars
  THEN RStrip(SubSeq(s, 1, Len(s) - 1)) ELSE s

\* str.strip()
Strip(s) == RStrip(LStrip(s))

RECURSIVE Tokens(_)
\* the maximal runs of non-space characters of s: what \s+ separates
Tokens(s) ==
  LET t == LStrip(s)
  IN IF t = <<>> THEN <<>>
     ELSE LET n == CHOOSE k \in 1..Len(t) :
                     /\ \A j \in 1..k : t[j] \notin SpaceChars
                     /\ k = Len(t) \/ t[k + 1] \in SpaceChars
          IN <<SubSeq(t, 1, n)>> \o Tokens(SubSeq(t, n + 1, Len(t)))

AllIn(token, chars) == \A k \in 1..Len(token) : token[k] \in chars

RECURSIVE SkipSpaces(_, _)
\* the first index from i on that holds no space character
SkipSpaces(s, i) ==
  IF i < Len(s) /\ At(s, i) \in SpaceChars THEN SkipSpaces(s, i + 1) ELSE i

\* the index after `word\s+` when s has it at index i, and -1 when not
AfterWord(s, word, i) ==
  IF i >= 0 /\ StartsWith(s, word, i)
       /\ SkipSpaces(s, i + Len(word)) > i + Len(word)
  THEN SkipSpaces(s, i + Len(word)) ELSE -1

\* HEADER_PATTERNS[0]: r"Presentation\s+title\s+Page\s+\d+", re.IGNORECASE
MatchesPresentationTitlePage(s) ==
  LET low == Lower(s)
  IN \E i \in 0..Len(s) :
       LET a == AfterWord(low, <<"p", "r", "e", "s", "e", "n", "t", "a", "t", "i", "o", "n">>, i)
           b == AfterWord(low, <<"t", "i", "t", "l", "e">>, a)
           c == AfterWord(low, <<"p", "a", "g", "e">>, b)
       IN c >= 0 /\ c < Len(s) /\ At(s, c) \in DigitChars

\* HEADER_PATTERNS[1]: r"^\s*Page\s+\d+\s+\d{1,2}\s+\w+\s+\d{4}\s*$"
MatchesPageAndDate(s) ==
  LET t == Tokens(s)
  IN /\ Len(t) = 5
     /\ Lower(t[1]) = <<"p", "a", "g", "e">>
     /\ AllIn(t[2], DigitChars)
     /\ AllIn(t[3], DigitChars) /\ Len(t[3]) <= 2
     /\ AllIn(t[4], WordChars)
     /\ AllIn(t[5], DigitChars) /\ Len(t[5]) = 4

\* HEADER_PATTERNS[2]: r"^\s*\d{1,2}\s+\w+\s+\d{4}\s*$"
MatchesDate(s) ==
  LET t == Tokens(s)
  IN /\ Len(t) = 3
     /\ AllIn(t[1], DigitChars) /\ Len(t[1]) <= 2
     /\ AllIn(t[2], WordChars)
     /\ AllIn(t[3], DigitChars) /\ Len(t[3]) = 4

\* ["TITLE", "CENTER_TITLE", "SUBTITLE"]
TitleTypeNames ==
  {<<"T", "I", "T", "L", "E">>,
   <<"C", "E", "N", "T", "E", "R", "_", "T", "I", "T", "L", "E">>,
   <<"S", "U", "B", "T", "I", "T", "L", "E">>}

\* _is_template_header(text, placeholder_type)
is_template_header(text, placeholder_type) ==
  LET text_stripped == Strip(text)
  IN IF text_stripped = <<>> THEN FALSE
     ELSE IF placeholder_type \in {PyStr(name) : name \in TitleTypeNames}
     THEN FALSE
     ELSE \/ MatchesPresentationTitlePage(text_stripped)
          \/ MatchesPageAndDate(text_stripped)
          \/ MatchesDate(text_stripped)

----------------------------------------------------------------------------
(* The template and the text frames of a slide (python-pptx objects) *)

TxtClick == <<"C", "l", "i", "c", "k">>

TxtHi == <<"H", "i">>

\* "1 Jan 2024"
TxtDate == <<"1", " ", "J", "a", "n", " ", "2", "0", "2", "4">>

\* "Presentation title Page 1"
TxtHeader ==
  <<"P", "r", "e", "s", "e", "n", "t", "a", "t", "i", "o", "n", " ",
    "t", "i", "t", "l", "e", " ", "P", "a", "g", "e", " ", "1">>

\* str(shape.placeholder_format.type) of the placeholder types of the template
TypeTitle == <<"T", "I", "T", "L", "E", " ", "(", "1", ")">>

TypeCenterTitle == <<"C", "E", "N", "T", "E", "R", "_", "T", "I", "T", "L", "E", " ", "(", "3", ")">>

TypeSubtitle == <<"S", "U", "B", "T", "I", "T", "L", "E", " ", "(", "4", ")">>

TypeBody == <<"B", "O", "D", "Y", " ", "(", "2", ")">>

TypePicture == <<"P", "I", "C", "T", "U", "R", "E", " ", "(", "1", "8", ")">>

\* a placeholder of a slide layout: shape.placeholder_format.idx, the string
\* form of shape.placeholder_format.type, shape.name,
\* hasattr(shape, "text_frame"), and the text its frame holds on a new slide
Placeholder(idx, ph_type, name, has_text_frame, text) ==
  [type |-> "shape", idx |-> idx, ph_type |-> ph_type, name |-> name,
   has_text_frame |-> has_text_frame, text |-> text]

\* prs.slide_layouts of the template
InjLayouts ==
  << <<Placeholder(0, TypeTitle, "Title 1", TRUE, TxtClick),
       Placeholder(1, TypeBody, "Content 2", TRUE, TxtHeader)>>,
     <<Placeholder(0, TypeSubtitle, "Subtitle 1", TRUE, TxtDate),
       Placeholder(1, TypePicture, "Picture 2", FALSE, <<>>)>>,
     <<Placeholder(0, TypeCenterTitle, "Title 1", TRUE, <<>>)>> >>

\* find_placeholder_by_id(slide, idx): the first placeholder with that idx
find_placeholder_by_id(placeholders, idx) ==
  LET at == {k \in 1..Len(placeholders) : placeholders[k].idx = idx}
  IN IF at = {} THEN PyNone
     ELSE placeholders[CHOOSE k \in at : \A o \in at : k <= o]

\* a slot of the registry as find_placeholder_by_semantic_role reads it:
\* semantic_role and the stable identity fields, each of which may be missing
IdentitySlot(semantic_role, placeholder_idx, placeholder_type, placeholder_name) ==
  [semantic_role |-> semantic_role, placeholder_idx |-> placeholder_idx,
   placeholder_type |-> placeholder_type, placeholder_name |-> placeholder_name]

\* [s for s in slot_metadata if s.get('semantic_role') == semantic_role]
MatchingSlots(slot_metadata, semantic_role) ==
  SelectSeq(slot_metadata, LAMBDA s : s.semantic_role = semantic_role)

RECURSIVE BeforeParen(_)
\* placeholder_type.split('(')[0]
BeforeParen(s) ==
  IF s = <<>> \/ Head(s) = "(" THEN <<>> ELSE <<Head(s)>> \o BeforeParen(Tail(s))

\* placeholder_type.split('(')[0].strip() if '(' in placeholder_type
\* else placeholder_type
TypeName(placeholder_type) ==
  IF \E k \in 1..Len(placeholder_type) : placeholder_type[k] = "("
  THEN Strip(BeforeParen(placeholder_type))
  ELSE placeholder_type

\* for shape in slide.placeholders: the first shape among the positions that
\* pass the test of a tier, None when the loop ends without a return
FirstShape(placeholders, at) ==
  IF at = {} THEN PyNone
  ELSE placeholders[CHOOSE k \in at : \A o \in at : k <= o]

\* Tier 1: shape.placeholder_format.idx == placeholder_idx, tried when
\* placeholder_idx is not None
Tier1(placeholders, target_slot) ==
  LET placeholder_idx == Get(target_slot.placeholder_idx, PyNone)
  IN IF placeholder_idx # PyNone
     THEN FirstShape(placeholders,
            {k \in 1..Len(placeholders) : PyInt(placeholders[k].idx) = placeholder_idx})
     ELSE PyNone

Tier2MatchExact(type_name, shape_type_str) == type_name = shape_type_str

\* type_name in shape_type_str
Tier2Match(type_name, shape_type_str) == Contains(shape_type_str, type_name)

\* Tier 2: the type name of the slot within str(shape.placeholder_format.type),
\* tried when placeholder_type is a non-empty string
Tier2(placeholders, target_slot) ==
  LET placeholder_type == Get(target_slot.placeholder_type, PyStr(<<>>))
  IN IF placeholder_type.chars # <<>>
     THEN FirstShape(placeholders,
            {k \in 1..Len(placeholders) :
               Tier2Match(TypeName(placeholder_type.chars), placeholders[k].ph_type)})
     ELSE PyNone

\* Tier 3: shape.name == placeholder_name, tried when placeholder_name is a
\* non-empty string
Tier3(placeholders, target_slot) ==
  LET placeholder_name == Get(target_slot.placeholder_name, PyNone)
  IN IF placeholder_name # PyNone /\ placeholder_name.sym # ""
     THEN FirstShape(placeholders,
            {k \in 1..Len(placeholders) : Sym(placeholders[k].name) = placeholder_name})
     ELSE PyNone

\* find_placeholder_by_semantic_role(slide, semantic_role, slot_metadata)
find_placeholder_by_semantic_role(placeholders, semantic_role, slot_metadata) ==
  LET matching_slots == MatchingSlots(slot_metadata, semantic_role)
  IN IF matching_slots = <<>> THEN PyNone
     ELSE LET target_slot == matching_slots[1]
          IN IF Tier1(placeholders, target_slot) # PyNone
             THEN Tier1(placeholders, target_slot)
             ELSE IF Tier2(placeholders, target_slot) # PyNone
             THEN Tier2(placeholders, target_slot)
             ELSE Tier3(placeholders, target_slot)

\* the slots the registry lists for the layouts of the template; the title
\* slot of layout 0 was indexed under an idx the template no longer has
InjSlotMetadata ==
  << <<IdentitySlot(Sym("title"), PyInt(7), PyStr(TypeTitle), Sym("Title 1")),
       IdentitySlot(Sym("body"), PyInt(1), PyStr(TypeBody), Sym("Content 2"))>>,
     <<IdentitySlot(Sym("title"), PyInt(0), PyStr(TypeSubtitle), Sym("Subtitle 1"))>>,
     <<IdentitySlot(Sym("title"), PyInt(0), PyStr(TypeCenterTitle), Sym("Title 1"))>> >>

EmptyParagraph == [runs |-> <<>>, alignment |-> PyNone, level |-> PyNone]

\* the text frame of a placeholder of a slide just added
TextFrame(text) ==
  [type |-> "text_frame",
   paragraphs |-> <<[EmptyParagraph EXCEPT !.runs =
                       IF text = <<>> THEN <<>>
                       ELSE <<[text |-> text, bold |-> FALSE, italic |-> FALSE,
                               size |-> PyNone, white |-> FALSE]>>]>>,
   clear_calls |-> 0, vertical_anchor |-> PyNone, auto_size |-> PyNone]

RECURSIVE JoinParagraphs(_)
\* tf.text: the paragraphs' texts joined by line feeds
JoinParagraphs(paragraphs) ==
  IF paragraphs = <<>> THEN <<>>
  ELSE IF Len(paragraphs) = 1 THEN JoinRunTexts(paragraphs[1].runs)
  ELSE JoinRunTexts(paragraphs[1].runs) \o <<"\n">> \o JoinParagraphs(Tail(paragraphs))

FrameText(tf) == JoinParagraphs(tf.paragraphs)

\* tf.clear(): every run goes; whether one empty paragraph stays is up to the
\* library (the code guards against both outcomes)
Clear(tf, keeps_paragraph) ==
  [tf EXCEPT !.paragraphs = IF keeps_paragraph THEN <<EmptyParagraph>> ELSE <<>>,
             !.clear_calls = @ + 1]

\* p = tf.add_paragraph() whether or not clear() left a paragraph
EnsureParagraphAlwaysAdds(tf) == [tf EXCEPT !.paragraphs = Append(@, EmptyParagraph)]

\* p = tf.paragraphs[0] if tf.paragraphs else tf.add_paragraph()
EnsureParagraph(tf) ==
  IF tf.paragraphs = <<>> THEN [tf EXCEPT !.paragraphs = <<EmptyParagraph>>] ELSE tf

\* tf.add_paragraph()
AddParagraph(tf) == [tf EXCEPT !.paragraphs = Append(@, EmptyParagraph)]

\* r = p.add_run() with text, bold, italic, font size and colour set
AddRun(tf, p, run_data, font_size, has_background) ==
  [tf EXCEPT !.paragraphs[p].runs =
     Append(@, [text |-> run_data.text, bold |-> run_data.bold,
                italic |-> run_data.italic, size |-> font_size,
                white |-> has_background])]

\* alignment_str -> PP_ALIGN.*, or None to keep the master's default
TargetAlignment(alignment_str) ==
  IF alignment_str \in {Sym("CENTER"), Sym("RIGHT"), Sym("LEFT")}
  THEN alignment_str ELSE PyNone

----------------------------------------------------------------------------
(* injector.py: rendering one field of surgical_injection_node *)

\* config.py: the default of the ENABLE_AUTOFIT_ROLES setting
ENABLE_AUTOFIT_ROLES == {"caption", "circular_text"}

\* int(slot_id), Absent standing for the ValueError of a key that is no number
IntOfKey(slot_id) ==
  CASE slot_id = "0" -> PyInt(0)
    [] slot_id = "1" -> PyInt(1)
    [] slot_id = "7" -> PyInt(7)
    [] OTHER -> Absent

\* style.get("font_size") as applied to a run: None leaves the size alone
FontSizeOf(style) ==
  IF style.font_size \in {Absent, PyNone} THEN PyNone ELSE style.font_size

\* style.get(key) or []
ItemsOrEmpty(field) == IF Truthy(field) THEN field.items ELSE <<>>

\* shape.placeholder_format.type as the semantic path passes it on: the enum
\* member itself, which equals no string
TypeEnum(shape) == [type |-> "enum", str |-> shape.ph_type]

\* what the rendering of one field leaves: the text frame it worked on (None
\* when it found none), the text that frame held before, what
\* _is_template_header said of that text, and how the field ended
Rendered(tf, original, header, outcome) ==
  [frame |-> tf, original |-> original, header |-> header, outcome |-> outcome]

RECURSIVE RenderRuns(_, _, _, _, _)
\* for run_data in runs: if run_text: p.add_run() ...
RenderRuns(tf, p, runs, font_size, has_background) ==
  IF runs = <<>> THEN tf
  ELSE RenderRuns(IF Head(runs).text # <<>>
                  THEN AddRun(tf, p, Head(runs), font_size, has_background)
                  ELSE tf,
                  p, Tail(runs), font_size, has_background)

RECURSIVE RenderBullets(_, _, _, _, _)
\* for bullet_idx, bullet_item in enumerate(bullet_items): one paragraph per
\* item; an item that is no dict raises once its paragraph exists
RenderBullets(tf, bullet_items, bullet_idx, font_size, has_background) ==
  IF bullet_idx >= Len(bullet_items) THEN [frame |-> tf, failed |-> FALSE]
  ELSE LET with_p == IF bullet_idx = 0 THEN EnsureParagraph(tf) ELSE AddParagraph(tf)
           p == IF bullet_idx = 0 THEN 1 ELSE Len(with_p.paragraphs)
           levelled == [with_p EXCEPT !.paragraphs[p].level = PyInt(0)]
           bullet_item == At(bullet_items, bullet_idx)
       IN IF bullet_item.type # "dict" THEN [frame |-> levelled, failed |-> TRUE]
          ELSE RenderBullets(
                 RenderRuns(levelled, p, ItemsOrEmpty(Get(bullet_item.runs, PyList(<<>>))),
                            font_size, has_background),
                 bullet_items, bullet_idx + 1, font_size, has_background)

\* for p in tf.paragraphs: p.alignment = target_alignment
AlignAll(tf, target_alignment) ==
  [tf EXCEPT !.paragraphs =
     [k \in 1..Len(@) |-> [@[k] EXCEPT !.alignment = target_alignment]]]

\* the semantic path: has_runs or has_bullets
HasContent(style) ==
  \/ \E k \in 1..Len(ItemsOrEmpty(style.runs)) :
       Strip(ItemsOrEmpty(style.runs)[k].text) # <<>>
  \/ ItemsOrEmpty(style.bullets) # <<>>

\* the semantic path from tf.clear() on
RenderSemanticContent(tf, original, header, style, has_background, keeps_paragraph) ==
  LET cleared == Clear(tf, keeps_paragraph)
      anchored == IF style.vertical_anchor = Sym("MIDDLE")
                  THEN [cleared EXCEPT !.vertical_anchor = Sym("MIDDLE")]
                  ELSE cleared
      target_alignment == TargetAlignment(style.alignment)
      autofit(f) == IF style.semantic_role \notin {Absent, PyNone}
                       /\ style.semantic_role.sym \in ENABLE_AUTOFIT_ROLES
                    THEN [f EXCEPT !.auto_size = Sym("TEXT_TO_FIT_SHAPE")]
                    ELSE f
  IN IF style.bullets # Absent
     THEN IF style.bullets = PyNone
          THEN Rendered(anchored, original, header, "failed")
          ELSE LET r == RenderBullets(anchored, style.bullets.items, 0,
                                      FontSizeOf(style), has_background)
               IN IF r.failed THEN Rendered(r.frame, original, header, "failed")
                  ELSE Rendered(autofit(IF target_alignment = PyNone THEN r.frame
                                        ELSE AlignAll(r.frame, target_alignment)),
                                original, header, "rendered")
     ELSE IF style.runs # Absent
     THEN LET r == RenderRuns(EnsureParagraph(anchored), 1, style.runs.items,
                              FontSizeOf(style), has_background)
          IN Rendered(autofit(IF target_alignment = PyNone THEN r
                              ELSE [r EXCEPT !.paragraphs[1].alignment = target_alignment]),
                      original, header, "rendered")
     ELSE Rendered(autofit(anchored), original, header, "rendered")

\* the body of the semantic loop for one (slot_id, style), style being a dict
RenderSemanticField(placeholders, slot_id, style, has_background, keeps_paragraph) ==
  IF style.semantic_role = Sym("image_query")
  THEN Rendered(PyNone, PyNone, FALSE, "image_query")
  ELSE IF IntOfKey(slot_id) = Absent
  THEN Rendered(PyNone, PyNone, FALSE, "failed")
  ELSE LET shape == find_placeholder_by_id(placeholders, IntOfKey(slot_id).val)
       IN IF shape = PyNone \/ ~shape.has_text_frame
          THEN Rendered(PyNone, PyNone, FALSE, "not_found")
          ELSE LET tf == TextFrame(shape.text)
                   original == PyStr(shape.text)
                   header == is_template_header(Strip(FrameText(tf)), TypeEnum(shape))
               IN IF ~HasContent(style)
                  THEN Rendered(tf, original, header, "no_content")
                  ELSE RenderSemanticContent(tf, original, header, style,
                                             has_background, keeps_paragraph)

RECURSIVE RenderLegacyRuns(_, _, _, _)
\* the legacy loop over the runs: header-like runs are dropped; the result
\* carries has_content
RenderLegacyRuns(acc, runs, font_size, has_background) ==
  IF runs = <<>> THEN acc
  ELSE LET run_data == Head(runs)
           emits == ~is_template_header(run_data.text, PyNone) /\ run_data.text # <<>>
       IN RenderLegacyRuns(
            IF emits
            THEN [frame |-> AddRun(acc.frame, 1, run_data, font_size, has_background),
                  has_content |-> TRUE]
            ELSE acc,
            Tail(runs), font_size, has_background)

\* the legacy path: not runs_to_render or all(not r.get("text", "").strip() ...)
NothingToRender(style) ==
  \/ ~Truthy(style.runs)
  \/ \A k \in 1..Len(style.runs.items) : Strip(style.runs.items[k].text) = <<>>

\* the body of the legacy loop for one (slot_id, style); outcome "raised"
\* stands for the AttributeError of a style that is no dict, which the
\* except clause (ValueError, TypeError) lets through
RenderLegacyField(placeholders, slot_id, style, has_background, keeps_paragraph) ==
  IF IntOfKey(slot_id) = Absent
  THEN Rendered(PyNone, PyNone, FALSE, "failed")
  ELSE LET shape == find_placeholder_by_id(placeholders, IntOfKey(slot_id).val)
       IN IF shape = PyNone \/ ~shape.has_text_frame
          THEN Rendered(PyNone, PyNone, FALSE, "not_found")
          ELSE LET tf == TextFrame(shape.text)
                   original == PyStr(shape.text)
                   header == is_template_header(FrameText(tf), PyStr(shape.ph_type))
                   cleared == Clear(tf, keeps_paragraph)
               IN IF style.type # "dict"
                  THEN Rendered(IF header THEN cleared ELSE EnsureParagraph(cleared),
                                original, header, "raised")
                  ELSE IF header /\ NothingToRender(style)
                  THEN Rendered(cleared, original, header, "header_cleared")
                  ELSE IF style.runs = PyNone
                  THEN Rendered(EnsureParagraph(cleared), original, header, "failed")
                  ELSE LET r == RenderLegacyRuns(
                                  [frame |-> EnsureParagraph(cleared), has_content |-> FALSE],
                                  Get(style.runs, PyList(<<>>)).items,
                                  FontSizeOf(style), has_background)
                           target_alignment == TargetAlignment(style.alignment)
                       IN Rendered(
                            IF target_alignment = PyNone THEN r.frame
                            ELSE [r.frame EXCEPT !.paragraphs[1].alignment = target_alignment],
                            original, header,
                            IF r.has_content THEN "rendered" ELSE "emptied")

----------------------------------------------------------------------------
(* surgical_injection_node: the styled manifests it is handed *)

\* the runs a Style Specification may list
InjRunValues ==
  {PlainRun(<<>>), PlainRun(<<" ">>), PlainRun(TxtDate),
   [text |-> TxtHi, bold |-> TRUE, italic |-> FALSE]}

\* the items of a bullet list; the last one is an item that is no dict
InjBulletItems ==
  {BulletItem(<<>>), BulletItem(<<PlainRun(<<>>)>>), BulletItem(<<PlainRun(TxtHi)>>),
   Sym("not a dict")}

\* the values under "runs" and "bullets": some with one key, some with both,
\* one with neither
InjContents ==
  {[runs |-> r, bullets |-> Absent] :
     r \in {PyList(q) : q \in SeqsUpTo(InjRunValues, MaxRuns)} \cup {PyNone}}
  \cup
  {[runs |-> Absent, bullets |-> b] :
     b \in {PyList(q) : q \in SeqsUpTo(InjBulletItems, MaxBullets)} \cup {PyNone}}
  \cup
  {[runs |-> r, bullets |-> b] :
     r \in {PyList(<<>>), PyList(<<PlainRun(TxtHi)>>)},
     b \in {PyNone, PyList(<<>>), PyList(<<BulletItem(<<PlainRun(TxtHi)>>)>>)}}
  \cup
  {[runs |-> Absent, bullets |-> Absent]}

\* font size, alignment, semantic role and vertical anchor as beautifier_node
\* sets them: a body, the title of a title slide, a caption, a field of the
\* slot-id path without slot metadata, and an image_query
InjAttributes ==
  {[font_size |-> PyNone, alignment |-> PyNone,
    semantic_role |-> Sym("body"), vertical_anchor |-> Absent],
   [font_size |-> PyInt(FONT_SIZE_TITLE_SLIDE_MAIN), alignment |-> Sym("CENTER"),
    semantic_role |-> Sym("title"), vertical_anchor |-> Sym("MIDDLE")],
   [font_size |-> PyNone, alignment |-> Sym("RIGHT"),
    semantic_role |-> Sym("caption"), vertical_anchor |-> Absent],
   [font_size |-> PyInt(FONT_SIZE_FALLBACK), alignment |-> Sym("LEFT"),
    semantic_role |-> Absent, vertical_anchor |-> Absent],
   [font_size |-> PyNone, alignment |-> PyNone,
    semantic_role |-> Sym("image_query"), vertical_anchor |-> Absent]}

\* the values of a content dict: Style Specifications, and one value that is
\* no dict
InjStyles ==
  {[type |-> "dict", runs |-> c.runs, bullets |-> c.bullets,
    font_size |-> a.font_size, alignment |-> a.alignment,
    semantic_role |-> a.semantic_role, vertical_anchor |-> a.vertical_anchor] :
     c \in InjContents, a \in InjAttributes}
  \cup {Sym("not a dict")}

\* the keys of a content dict
InjKeys == {"0", "1", "7", "x"}

\* the values of layout_index; the template has layouts 0, 1 and 2
InjLayoutIndices == {0, 1, 2, 9}

----------------------------------------------------------------------------
(* surgical_injection_node as a step machine *)

InjIdle == [pc |-> "idle"]

\* prs = Presentation(primary_master_path); the loop over the manifest starts
InjCall(n) == [pc |-> "loop", manifest_len |-> n, i |-> 0]

\* layout = prs.slide_layouts[layout_idx]; slide = prs.slides.add_slide(layout)
InjAddSlide ==
  /\ inj.pc = "loop"
  /\ inj.i < inj.manifest_len
  /\ \E layout_idx \in InjLayoutIndices, has_background \in BOOLEAN, is_semantic \in BOOLEAN :
       /\ layout_idx < Len(InjLayouts)
       /\ inj' = [pc |-> "fields", manifest_len |-> inj.manifest_len, i |-> inj.i,
                  layout_idx |-> layout_idx, has_background |-> has_background,
                  is_semantic |-> is_semantic, seen |-> {}, rendered_fields |-> 0]

\* prs.slide_layouts[layout_idx] with an index the template does not have:
\* IndexError, outside every try block
InjRaiseBadLayout ==
  /\ inj.pc = "loop"
  /\ inj.i < inj.manifest_len
  /\ \E layout_idx \in InjLayoutIndices :
       /\ layout_idx >= Len(InjLayouts)
       /\ inj' = [pc |-> "raised", error |-> "IndexError",
                  manifest_len |-> inj.manifest_len, i |-> inj.i]

\* for slot_id, style in semantic_content.items(): the next entry
InjNextField ==
  /\ inj.pc = "fields"
  /\ Cardinality(inj.seen) < MaxInjFields
  /\ \E slot_id \in InjKeys \ inj.seen, style \in InjStyles :
       inj' = [pc |-> "field", manifest_len |-> inj.manifest_len, i |-> inj.i,
               layout_idx |-> inj.layout_idx, has_background |-> inj.has_background,
               is_semantic |-> inj.is_semantic, seen |-> inj.seen,
               rendered_fields |-> inj.rendered_fields,
               slot_id |-> slot_id, style |-> style]

\* the field has been worked on: its result is kept until the next entry
InjAfterField(result) ==
  [pc |-> "rendered", manifest_len |-> inj.manifest_len, i |-> inj.i,
   layout_idx |-> inj.layout_idx, has_background |-> inj.has_background,
   is_semantic |-> inj.is_semantic, seen |-> inj.seen \cup {inj.slot_id},
   rendered_fields |-> inj.rendered_fields
                         + (IF result.outcome = "rendered" THEN 1 ELSE 0),
   slot_id |-> inj.slot_id, style |-> inj.style,
   frame |-> result.frame, original |-> result.original,
   header |-> result.header, outcome |-> result.outcome]

\* an exception leaves surgical_injection_node while a field is worked on
InjAfterRaise(result) ==
  [pc |-> "raised", error |-> "AttributeError",
   manifest_len |-> inj.manifest_len, i |-> inj.i,
   slot_id |-> inj.slot_id, style |-> inj.style,
   frame |-> result.frame, original |-> result.original]

\* the body of the semantic loop (lines 285-419)
InjRenderSemantic ==
  /\ inj.pc = "field"
  /\ inj.is_semantic
  /\ inj.style.type = "dict"
  /\ \E keeps_paragraph \in BOOLEAN :
       inj' = InjAfterField(RenderSemanticField(InjLayouts[inj.layout_idx + 1],
                              inj.slot_id, inj.style, inj.has_background,
                              keeps_paragraph))

\* style.get("semantic_role") on a style that is no dict: AttributeError,
\* before the try block of the semantic loop
InjRaiseSemantic ==
  /\ inj.pc = "field"
  /\ inj.is_semantic
  /\ inj.style.type # "dict"
  /\ inj' = InjAfterRaise(Rendered(PyNone, PyNone, FALSE, "raised"))

\* the body of the legacy loop (lines 427-512) that ends inside the loop
InjRenderLegacy ==
  /\ inj.pc = "field"
  /\ ~inj.is_semantic
  /\ \E keeps_paragraph \in BOOLEAN :
       LET result == RenderLegacyField(InjLayouts[inj.layout_idx + 1],
                       inj.slot_id, inj.style, inj.has_background, keeps_paragraph)
       IN /\ result.outcome # "raised"
          /\ inj' = InjAfterField(result)

\* the body of the legacy loop on a style that is no dict: AttributeError,
\* which except (ValueError, TypeError) does not catch
InjRaiseLegacy ==
  /\ inj.pc = "field"
  /\ ~inj.is_semantic
  /\ \E keeps_paragraph \in BOOLEAN :
       LET result == RenderLegacyField(InjLayouts[inj.layout_idx + 1],
                       inj.slot_id, inj.style, inj.has_background, keeps_paragraph)
       IN /\ result.outcome = "raised"
          /\ inj' = InjAfterRaise(result)

\* back to the head of the loop over the fields
InjContinue ==
  /\ inj.pc = "rendered"
  /\ inj' = [pc |-> "fields", manifest_len |-> inj.manifest_len, i |-> inj.i,
             layout_idx |-> inj.layout_idx, has_background |-> inj.has_background,
             is_semantic |-> inj.is_semantic, seen |-> inj.seen,
             rendered_fields |-> inj.rendered_fields]

\* the content dict has no further entry: the slide is logged, next slide
InjEndSlide ==
  /\ inj.pc = "fields"
  /\ inj' = [pc |-> "loop", manifest_len |-> inj.manifest_len, i |-> inj.i + 1]

\* prs.save(output_path); return {"final_file_path": output_path}
InjSave ==
  /\ inj.pc = "loop"
  /\ inj.i = inj.manifest_len
  /\ \E has_path \in BOOLEAN :
       inj' = [pc |-> "done", manifest_len |-> inj.manifest_len,
               final_file_path |-> IF has_path THEN "state.final_file_path"
                                   ELSE "data/outputs/final_deck.pptx"]

InjInit ==
  /\ inj \in {InjCall(n) : n \in 0..MaxInjSlides}
  /\ md = MdIdle
  /\ bt = [pc |-> "idle"]
  /\ fr = [pc |-> "idle"]
  /\ pol = [pc |-> "idle"]
  /\ ct = [pc |-> "idle"]
  /\ ix = [pc |-> "idle"]
  /\ rc = [pc |-> "idle"]
  /\ ne = [pc |-> "idle"]

InjNext ==
  /\ \/ InjAddSlide
     \/ InjRaiseBadLayout
     \/ InjNextField
     \/ InjRenderSemantic
     \/ InjRaiseSemantic
     \/ InjRenderLegacy
     \/ InjRaiseLegacy
     \/ InjContinue
     \/ InjEndSlide
     \/ InjSave
  /\ UNCHANGED <<md, bt, fr, pol, ct, ix, rc, ne>>

SpecInjector == InjInit /\ [][InjNext]_vars

InjTypeOK ==
  inj.pc \in {"idle", "loop", "fields", "field", "rendered", "raised", "done"}

----------------------------------------------------------------------------
(* find_placeholder_by_semantic_role as a step machine: one action per exit *)

\* the values of placeholder_idx a registry slot may carry: missing, the idx
\* of a live placeholder, an idx no slide of the template has
IdentityIdxValues == {Absent, PyInt(0), PyInt(5)}

\* the values of placeholder_type: missing, with and without the "(n)" suffix
IdentityTypeValues == {Absent, PyStr(TypeTitle), PyStr(<<"B", "O", "D", "Y">>), PyStr(TypePicture)}

\* the values of placeholder_name
IdentityNameValues == {Absent, Sym("Title 1")}

\* the slots of a registry layout
IdentitySlots ==
  {IdentitySlot(Sym(r), i, ty, n) :
     r \in {"title", "body"}, i \in IdentityIdxValues,
     ty \in IdentityTypeValues, n \in IdentityNameValues}

\* the call: a slide added from a layout of the template, a role, the slots
FrCall(layout_idx, semantic_role, slot_metadata) ==
  [pc |-> "called", placeholders |-> InjLayouts[layout_idx + 1],
   semantic_role |-> semantic_role, slot_metadata |-> slot_metadata]

FrReturn(result, tier) ==
  [pc |-> "done", placeholders |-> fr.placeholders,
   semantic_role |-> fr.semantic_role, slot_metadata |-> fr.slot_metadata,
   result |-> result, tier |-> tier]

\* if not matching_slots: return None
FrNoMatchingSlot ==
  /\ fr.pc = "called"
  /\ MatchingSlots(fr.slot_metadata, fr.semantic_role) = <<>>
  /\ fr' = FrReturn(PyNone, 0)

\* return shape of the Tier 1 loop
FrTier1 ==
  /\ fr.pc = "called"
  /\ MatchingSlots(fr.slot_metadata, fr.semantic_role) # <<>>
  /\ LET target_slot == MatchingSlots(fr.slot_metadata, fr.semantic_role)[1]
     IN /\ Tier1(fr.placeholders, target_slot) # PyNone
        /\ fr' = FrReturn(Tier1(fr.placeholders, target_slot), 1)

\* return shape of the Tier 2 loop
FrTier2 ==
  /\ fr.pc = "called"
  /\ MatchingSlots(fr.slot_metadata, fr.semantic_role) # <<>>
  /\ LET target_slot == MatchingSlots(fr.slot_metadata, fr.semantic_role)[1]
     IN /\ Tier1(fr.placeholders, target_slot) = PyNone
        /\ Tier2(fr.placeholders, target_slot) # PyNone
        /\ fr' = FrReturn(Tier2(fr.placeholders, target_slot), 2)

\* return shape of the Tier 3 loop
FrTier3 ==
  /\ fr.pc = "called"
  /\ MatchingSlots(fr.slot_metadata, fr.semantic_role) # <<>>
  /\ LET target_slot == MatchingSlots(fr.slot_metadata, fr.semantic_role)[1]
     IN /\ Tier1(fr.placeholders, target_slot) = PyNone
        /\ Tier2(fr.placeholders, target_slot) = PyNone
        /\ Tier3(fr.placeholders, target_slot) # PyNone
        /\ fr' = FrReturn(Tier3(fr.placeholders, target_slot), 3)

\* the final return None: every tier missed
FrMiss ==
  /\ fr.pc = "called"
  /\ MatchingSlots(fr.slot_metadata, fr.semantic_role) # <<>>
  /\ LET target_slot == MatchingSlots(fr.slot_metadata, fr.semantic_role)[1]
     IN /\ Tier1(fr.placeholders, target_slot) = PyNone
        /\ Tier2(fr.placeholders, target_slot) = PyNone
        /\ Tier3(fr.placeholders, target_slot) = PyNone
        /\ fr' = FrReturn(PyNone, 4)

FrInit ==
  /\ \E l \in 0..(Len(InjLayouts) - 1), r \in {"title", "body"}, n \in 0..MaxSlots :
       \E m \in [1..n -> IdentitySlots] : fr = FrCall(l, Sym(r), m)
  /\ md = MdIdle
  /\ bt = [pc |-> "idle"]
  /\ inj = [pc |-> "idle"]
  /\ pol = [pc |-> "idle"]
  /\ ct = [pc |-> "idle"]
  /\ ix = [pc |-> "idle"]
  /\ rc = [pc |-> "idle"]
  /\ ne = [pc |-> "idle"]

FrNext ==
  /\ \/ FrNoMatchingSlot
     \/ FrTier1
     \/ FrTier2
     \/ FrTier3
     \/ FrMiss
  /\ UNCHANGED <<md, bt, inj, pol, ct, ix, rc, ne>>

SpecResolve == FrInit /\ [][FrNext]_vars

----------------------------------------------------------------------------
(* The styling policy: _determine_font_size and _alignment_for_role applied
   to the arguments beautifier_node may pass *)

\* role_hint: None, "", and the hints of registry slots
PolRoleHints ==
  {PyNone, PyStr(<<>>)} \cup
  {PyStr(Chars(name)) :
     name \in {"title", "subtitle", "body", "content", "footer", "bullets",
               "header", "headline", "section-title", "tagline", "caption",
               "quote", "center", "number", "value", "metric", "right",
               "Title", "kpi-value", "_note", "image_query"}}

\* semantic_role: None or the name of a semantic field
PolSemanticRoles == {PyNone, Sym("title"), Sym("body"), Sym("bullets")}

\* slide_role: None or a role of the slide
PolSlideRoles == {PyNone, Sym(ROLE_TITLE), Sym("CONTENT")}

\* area_ratio in thousandths of the slide area, on both sides of and exactly
\* at each threshold
PolAreaRatios == {0, 49, 50, 51, 100, 149, 150, 151, 299, 300, 301, 900}

PolCall(role_hint, semantic_role, slide_role, area_ratio) ==
  [pc |-> "args", role_hint |-> role_hint, semantic_role |-> semantic_role,
   slide_role |-> slide_role, area_ratio |-> area_ratio]

\* font_size = _determine_font_size(role_hint, area_ratio, slide_role)
PolFontSize ==
  /\ pol.pc = "args"
  /\ pol' = [pc |-> "sized", role_hint |-> pol.role_hint,
             semantic_role |-> pol.semantic_role, slide_role |-> pol.slide_role,
             area_ratio |-> pol.area_ratio,
             font_size |-> determine_font_size(pol.role_hint, pol.area_ratio,
                                               pol.slide_role)]

\* alignment = _alignment_for_role(role_hint, semantic_role, slide_role)
PolAlignment ==
  /\ pol.pc = "args"
  /\ pol' = [pc |-> "aligned", role_hint |-> pol.role_hint,
             semantic_role |-> pol.semantic_role, slide_role |-> pol.slide_role,
             area_ratio |-> pol.area_ratio,
             alignment |-> alignment_for_role(pol.role_hint, pol.semantic_role,
                                              pol.slide_role)]

PolInit ==
  /\ pol \in {PolCall(h, s, r, a) : h \in PolRoleHints, s \in PolSemanticRoles,
                                    r \in PolSlideRoles, a \in PolAreaRatios}
  /\ md = MdIdle
  /\ bt = [pc |-> "idle"]
  /\ inj = [pc |-> "idle"]
  /\ fr = [pc |-> "idle"]
  /\ ct = [pc |-> "idle"]
  /\ ix = [pc |-> "idle"]
  /\ rc = [pc |-> "idle"]
  /\ ne = [pc |-> "idle"]

PolNext ==
  /\ \/ PolFontSize
     \/ PolAlignment
  /\ UNCHANGED <<md, bt, inj, fr, ct, ix, rc, ne>>

SpecPolicy == PolInit /\ [][PolNext]_vars

----------------------------------------------------------------------------
(* beautifier.py: _fit_text_in_circle. Font sizes are counted in half points,
   which the bisection of [8, 72] never leaves; the radius is counted in
   fortieths of the slide, padding_ratio in tenths; lengths on the slide are
   counted in 1/9600 of the slide, in which a line height and a character
   width are whole numbers *)

\* FONT_SIZE_RANGE = (8, 72), in points
FONT_SIZE_RANGE == <<8, 72>>

\* FIT_PRECISION = 0.5 points, in half points
FIT_PRECISION == 1

\* line_height = (mid_font * LINE_HEIGHT_RATIO) / 720.0
LineHeight(mid_font) == 8 * mid_font

\* (mid_font * CHAR_WIDTH_RATIO) / 960.0: the width of one character
CharWidth(mid_font) == 3 * mid_font

\* effective_radius = radius * (1.0 - padding_ratio)
EffectiveRadius(radius, padding_ratio) == 24 * radius * (10 - padding_ratio)

Abs(x) == IF x < 0 THEN 0 - x ELSE x

\* width > _calculate_chord_width(y_offset, radius) for a width >= 0: the
\* chord is 0.0 outside the circle and 2 * sqrt(r^2 - dy^2) inside
WiderThanChord(width, y_offset, radius) ==
  IF radius <= 0 \/ Abs(y_offset) >= radius THEN width > 0
  ELSE width * width > 4 * (radius * radius - Abs(y_offset) * Abs(y_offset))

RECURSIVE LineChars(_)
\* sum(len(w) + 1 for w in current_line)
LineChars(current_line) ==
  IF current_line = <<>> THEN 0
  ELSE Len(Head(current_line)) + 1 + LineChars(Tail(current_line))

\* one pass of `for word in words`: the word starts a new line when the
\* current line is wider than the chord at its height, else it joins the line
WrapWord(w, word, mid_font, effective_radius) ==
  LET line_height == LineHeight(mid_font)
      wraps == /\ w.current_line # <<>>
               /\ WiderThanChord(LineChars(w.current_line) * CharWidth(mid_font),
                                  w.current_y + line_height \div 2, effective_radius)
  IN IF wraps
     THEN [current_line |-> <<word>>, current_y |-> w.current_y + line_height,
           fits |-> ~(w.current_y + line_height + line_height > effective_radius)]
     ELSE [w EXCEPT !.current_line = Append(@, word)]

RECURSIVE WrapWords(_, _, _, _)
\* the loop over the words, left by break as soon as fits is False
WrapWords(w, words, mid_font, effective_radius) ==
  IF words = <<>> \/ ~w.fits THEN w
  ELSE WrapWords(WrapWord(w, Head(words), mid_font, effective_radius),
                 Tail(words), mid_font, effective_radius)

\* fits, for one mid_font: the wrapping loop and the final line
Fits(text, mid_font, effective_radius) ==
  LET w == WrapWords([current_line |-> <<>>, current_y |-> 0 - effective_radius,
                      fits |-> TRUE],
                     Tokens(text), mid_font, effective_radius)
  IN IF w.current_line # <<>> /\ w.fits
     THEN ~(w.current_y + LineHeight(mid_font) > effective_radius)
     ELSE w.fits

----------------------------------------------------------------------------
(* _fit_text_in_circle as a step machine, called twice on one circle *)

\* the characters of a plain text
CircleAlphabet == {"a", " "}

\* radius, in fortieths of the slide: negative, zero, 0.025 and 0.05
CircleRadii == {0 - 1, 0, 1, 2}

\* padding_ratio, in tenths: none, the default 0.1, all of the radius, more
CirclePaddings == {0, 1, 10, 12}

\* the call _fit_text_in_circle(text, runs, radius, padding_ratio); prev is
\* what the call before it on the same circle returned
CtCall(text, radius, padding_ratio, prev) ==
  [pc |-> "called", text |-> text, radius |-> radius,
   padding_ratio |-> padding_ratio, prev |-> prev]

\* return FONT_SIZE_RANGE[0]: no text, no radius, or padding beyond the radius
CtReturnMinimum ==
  /\ ct.pc = "called"
  /\ \/ ct.text = <<>>
     \/ ct.radius <= 0
     \/ EffectiveRadius(ct.radius, ct.padding_ratio) <= 0
  /\ ct' = [pc |-> "done", text |-> ct.text, radius |-> ct.radius,
            padding_ratio |-> ct.padding_ratio, prev |-> ct.prev,
            iterations |-> 0, result |-> FONT_SIZE_RANGE[1]]

\* min_font, max_font = FONT_SIZE_RANGE; best_fit = min_font
CtBeginSearch ==
  /\ ct.pc = "called"
  /\ ct.text # <<>>
  /\ ct.radius > 0
  /\ EffectiveRadius(ct.radius, ct.padding_ratio) > 0
  /\ ct' = [pc |-> "search", text |-> ct.text, radius |-> ct.radius,
            padding_ratio |-> ct.padding_ratio, prev |-> ct.prev,
            iterations |-> 0,
            min_font |-> 2 * FONT_SIZE_RANGE[1], max_font |-> 2 * FONT_SIZE_RANGE[2],
            best_fit |-> 2 * FONT_SIZE_RANGE[1]]

\* one pass of while max_font - min_font > FIT_PRECISION
CtBisect ==
  /\ ct.pc = "search"
  /\ ct.max_font - ct.min_font > FIT_PRECISION
  /\ LET mid_font == (ct.min_font + ct.max_font) \div 2
     IN IF Fits(ct.text, mid_font, EffectiveRadius(ct.radius, ct.padding_ratio))
        THEN ct' = [ct EXCEPT !.best_fit = mid_font, !.min_font = mid_font,
                              !.iterations = @ + 1]
        ELSE ct' = [ct EXCEPT !.max_font = mid_font, !.iterations = @ + 1]

\* return best_fit as the search counts it, in half points
CtReturnHalfPoints ==
  /\ ct.pc = "search"
  /\ ~(ct.max_font - ct.min_font > FIT_PRECISION)
  /\ ct' = [pc |-> "done", text |-> ct.text, radius |-> ct.radius,
            padding_ratio |-> ct.padding_ratio, prev |-> ct.prev,
            iterations |-> ct.iterations, result |-> ct.best_fit]

\* return int(best_fit)
CtReturn ==
  /\ ct.pc = "search"
  /\ ~(ct.max_font - ct.min_font > FIT_PRECISION)
  /\ ct' = [pc |-> "done", text |-> ct.text, radius |-> ct.radius,
            padding_ratio |-> ct.padding_ratio, prev |-> ct.prev,
            iterations |-> ct.iterations, result |-> ct.best_fit \div 2]

\* a second text is fitted into the same circle
CtCallAgain ==
  /\ ct.pc = "done"
  /\ ct.prev = PyNone
  /\ \E n \in 0..MaxText : \E text \in [1..n -> CircleAlphabet] :
       ct' = CtCall(text, ct.radius, ct.padding_ratio,
                    [type |-> "call", text |-> ct.text, result |-> ct.result])

CtInit ==
  /\ \E n \in 0..MaxText : \E text \in [1..n -> CircleAlphabet] :
       \E radius \in CircleRadii, padding_ratio \in CirclePaddings :
         ct = CtCall(text, radius, padding_ratio, PyNone)
  /\ md = MdIdle
  /\ bt = [pc |-> "idle"]
  /\ inj = [pc |-> "idle"]
  /\ fr = [pc |-> "idle"]
  /\ pol = [pc |-> "idle"]
  /\ ix = [pc |-> "idle"]
  /\ rc = [pc |-> "idle"]
  /\ ne = [pc |-> "idle"]

CtNext ==
  /\ \/ CtReturnMinimum
     \/ CtBeginSearch
     \/ CtBisect
     \/ CtReturn
     \/ CtCallAgain
  /\ UNCHANGED <<md, bt, inj, fr, pol, ix, rc, ne>>

SpecCircle == CtInit /\ [][CtNext]_vars

----------------------------------------------------------------------------
(* parse_template_node and build_registry_node                             *)
(* (src/nodes/pipeline_1_indexing/parser.py, registry_builder.py).         *)
(* Lengths are in twentieths of the slide's side when the slide is 20      *)
(* units wide and high; norm_* are kept in twentieths and area_ratio in    *)
(* four-hundredths, so 0.2 is 4, 0.8 is 16, 0.3 is 120, 0.05 is 20.        *)

\* one dict of get_placeholder_metadata(layout): identity, geometry (width
\* and height are None when the shape has none), shape_type, template_text
PlaceholderMetadata(idx, name, ph_type, left, top, width, height, shape_type, template_text) ==
  [idx |-> idx, name |-> name, type |-> ph_type, left |-> left, top |-> top,
   width |-> width, height |-> height, shape_type |-> shape_type,
   template_text |-> template_text, default_font_size_pt |-> PyNone]

NameTitle == <<"T", "i", "t", "l", "e", " ", "1">>
NameContent == <<"C", "o", "n", "t", "e", "n", "t", " ", "2">>
NameText == <<"T", "e", "x", "t", " ", "3">>
NamePicture == <<"P", "i", "c", "t", "u", "r", "e", " ", "4">>
NameImage == <<"I", "m", "a", "g", "e", " ", "5">>
NameFooter == <<"F", "o", "o", "t", "e", "r", " ", "6">>
TxtList == <<"L", "i", "s", "t">>

\* the placeholders a layout is made of, idx to be set from the position:
\* a wide title, a small title, a body, an oval content block, a picture
\* placeholder with its default name, a renamed picture placeholder, a
\* footer, a shape hanging off the slide's top-left corner and wider than
\* the slide, and a shape without dimensions
IxShapes ==
  { PlaceholderMetadata(0, NameTitle, TypeTitle, 1, 1, PyInt(18), PyInt(3), "rectangle", PyStr(TxtClick)),
    PlaceholderMetadata(0, NameTitle, TypeTitle, 1, 1, PyInt(2), PyInt(1), "rectangle", PyNone),
    PlaceholderMetadata(0, NameContent, TypeBody, 1, 5, PyInt(18), PyInt(12), "rectangle", PyStr(TxtList)),
    PlaceholderMetadata(0, NameText, TypeBody, 1, 5, PyInt(8), PyInt(6), "oval", PyNone),
    PlaceholderMetadata(0, NamePicture, TypePicture, 10, 5, PyInt(8), PyInt(8), "rectangle", PyNone),
    PlaceholderMetadata(0, NameImage, TypePicture, 10, 5, PyInt(8), PyInt(8), "rectangle", PyNone),
    PlaceholderMetadata(0, NameFooter, TypeSubtitle, 1, 18, PyInt(5), PyInt(1), "rectangle", PyNone),
    PlaceholderMetadata(0, NameText, TypeBody, -4, -2, PyInt(40), PyInt(20), "rectangle", PyNone),
    PlaceholderMetadata(0, NameText, TypeBody, 0, 0, PyNone, PyNone, "rectangle", PyNone) }

\* prs.slide_width and prs.slide_height
IxSlideSizes == {0, 20}

\* shape.get(key) or 0
OrZero(v) == IF v = PyNone \/ v.val = 0 THEN 0 ELSE v.val

\* x / dim if dim > 0 else 0, in twentieths
Normalized(x, dim) == IF dim > 0 THEN (x * 20) \div dim ELSE 0

\* (width * height) / total_area if total_area > 0 else 0, in four-hundredths
AreaRatio(width, height, total_area) ==
  IF total_area > 0 THEN (width * height * 400) \div total_area ELSE 0

\* the body of parse_template_node's loop over the shapes of one layout
EnrichGeometry(shape, slide_width, slide_height) ==
  LET width == OrZero(shape.width)
      height == OrZero(shape.height)
      norm_width == Normalized(width, slide_width)
      norm_height == Normalized(height, slide_height)
  IN [idx |-> shape.idx, name |-> shape.name, type |-> shape.type,
      left |-> shape.left, top |-> shape.top,
      width |-> shape.width, height |-> shape.height,
      shape_type |-> shape.shape_type, template_text |-> shape.template_text,
      default_font_size_pt |-> shape.default_font_size_pt,
      norm_left |-> Normalized(shape.left, slide_width),
      norm_top |-> Normalized(shape.top, slide_height),
      norm_width |-> norm_width,
      norm_height |-> norm_height,
      area_ratio |-> AreaRatio(width, height, slide_width * slide_height),
      is_circular |-> shape.shape_type = "oval",
      \* min(norm_width, norm_height) / 2, in fortieths
      radius |-> IF shape.shape_type = "oval"
                 THEN PyInt(IF norm_width <= norm_height THEN norm_width ELSE norm_height)
                 ELSE Absent,
      \* (norm_width / 2, norm_height / 2), in fortieths, when the axes differ
      \* by more than 0.01
      ellipse_axes |-> IF shape.shape_type = "oval" /\ norm_width # norm_height
                       THEN PyList(<<norm_width, norm_height>>)
                       ELSE Absent]

\* parse_template_node: one entry per layout, with its index, name and shapes
parse_template_node(template) ==
  [i \in 1..Len(template.layouts) |->
     [index |-> i - 1,
      name |-> template.layouts[i].name,
      shapes |-> [k \in 1..Len(template.layouts[i].placeholders) |->
                    EnrichGeometry(template.layouts[i].placeholders[k],
                                   template.slide_width, template.slide_height)]]]

\* derive_role_hint(shape)
derive_role_hint(shape) ==
  IF shape.norm_top < 4 /\ shape.norm_height < 4 THEN "title"
  ELSE IF shape.norm_top > 16 THEN "footer"
  ELSE IF shape.area_ratio > 120 THEN "body"
  ELSE "content"

\* sum(1 for s in enriched_shapes if s['role_hint'] == role_hint)
RoleSlots(enriched_shapes, role_hint) ==
  Cardinality({k \in 1..Len(enriched_shapes) : enriched_shapes[k].role_hint = role_hint})

\* sum(1 for s in enriched_shapes if 'Picture' in s.get('name', ''))
ImageSlots(enriched_shapes) ==
  Cardinality({k \in 1..Len(enriched_shapes) :
                 Contains(enriched_shapes[k].name, <<"P", "i", "c", "t", "u", "r", "e">>)})

\* layout_purpose of build_registry_node
LayoutPurpose(enriched_shapes) ==
  LET title_slots == RoleSlots(enriched_shapes, "title")
      body_slots == RoleSlots(enriched_shapes, "body")
      content_slots == RoleSlots(enriched_shapes, "content")
      image_slots == ImageSlots(enriched_shapes)
      has_columns == content_slots >= 2
      has_large_title ==
        \E k \in 1..Len(enriched_shapes) :
          enriched_shapes[k].area_ratio > 20 /\ enriched_shapes[k].role_hint = "title"
      has_only_title == title_slots >= 1 /\ body_slots = 0 /\ content_slots <= 1
  IN IF has_only_title /\ has_large_title THEN "TITLE_SLIDE"
     ELSE IF image_slots > 0 THEN "VISUAL_SLIDE"
     ELSE IF has_columns /\ content_slots >= 2 THEN "COMPARISON_SLIDE"
     ELSE IF body_slots >= 1 THEN "CONTENT_SLIDE"
     ELSE "GENERAL_CONTENT"

\* any(kw in template_text_lower for kw in ['bullet', 'point', 'list',
\* 'agenda', 'items'])
HasBulletKeyword(template_text) ==
  LET template_text_lower == IF template_text = PyNone THEN <<>> ELSE Lower(template_text.chars)
  IN \E kw \in { <<"b", "u", "l", "l", "e", "t">>, <<"p", "o", "i", "n", "t">>,
                 <<"l", "i", "s", "t">>, <<"a", "g", "e", "n", "d", "a">>,
                 <<"i", "t", "e", "m", "s">> } :
       Contains(template_text_lower, kw)

\* semantic_role inferred from the placeholder type, name and template text
SemanticRole(shape) ==
  IF Contains(shape.type, <<"T", "I", "T", "L", "E">>) THEN "title"
  ELSE IF \/ Contains(shape.type, <<"B", "O", "D", "Y">>)
          \/ Contains(shape.type, <<"O", "B", "J", "E", "C", "T">>)
          \/ Contains(shape.name, <<"C", "o", "n", "t", "e", "n", "t">>)
       THEN IF HasBulletKeyword(shape.template_text) THEN "bullets" ELSE "body"
  ELSE IF \/ Contains(shape.type, <<"P", "I", "C", "T", "U", "R", "E">>)
          \/ Contains(shape.type, <<"M", "E", "D", "I", "A">>)
          \/ Contains(shape.type, <<"C", "H", "A", "R", "T">>)
       THEN "image_query"
  ELSE IF \/ Contains(shape.name, <<"F", "o", "o", "t", "e", "r">>)
          \/ Contains(shape.name, <<"D", "a", "t", "e">>)
       THEN "footer"
  ELSE "body"

\* the SlotSchema built for one enriched shape of layout idx, for a shape
\* whose first run sets no font size
SlotSchema(idx, shape) ==
  LET semantic_role == SemanticRole(shape)
  IN [layout_index |-> idx,
      placeholder_idx |-> shape.idx,
      placeholder_type |-> shape.type,
      placeholder_name |-> shape.name,
      semantic_role |-> semantic_role,
      slot_id |-> shape.idx,
      content_type |-> IF semantic_role = "image_query" THEN "image" ELSE "text",
      template_text |-> shape.template_text,
      role_hint |-> shape.role_hint,
      content_priority |-> IF semantic_role = "footer" THEN "optional" ELSE "required",
      min_font_pt |-> IF semantic_role = "title" THEN 28
                      ELSE IF semantic_role \in {"bullets", "body"} THEN 14 ELSE 10,
      max_font_pt |-> IF semantic_role = "title" THEN 50
                      ELSE IF semantic_role \in {"bullets", "body"} THEN 24 ELSE 20,
      overflow_policy |-> IF semantic_role = "bullets" THEN "split_slide" ELSE "shrink",
      geometry |-> [area_ratio |-> shape.area_ratio, norm_top |-> shape.norm_top,
                    norm_left |-> shape.norm_left, norm_width |-> shape.norm_width,
                    norm_height |-> shape.norm_height, shape_type |-> shape.shape_type,
                    is_circular |-> shape.is_circular, radius |-> shape.radius,
                    ellipse_axes |-> shape.ellipse_axes]]

\* the LayoutMetadata build_registry_node appends for a layout with shapes
AnalyzeLayout(layout_raw) ==
  LET enriched_shapes ==
        [k \in 1..Len(layout_raw.shapes) |->
           [role_hint |-> derive_role_hint(layout_raw.shapes[k])] @@ layout_raw.shapes[k]]
      slots == [k \in 1..Len(enriched_shapes) |-> SlotSchema(layout_raw.index, enriched_shapes[k])]
      slot_count == Len(enriched_shapes)
  IN [layout_index |-> layout_raw.index,
      layout_name |-> layout_raw.name,
      layout_purpose |-> LayoutPurpose(enriched_shapes),
      slots |-> slots,
      has_image_slot |->
        \E k \in 1..Len(slots) :
          \/ Contains(slots[k].placeholder_type, <<"P", "I", "C", "T", "U", "R", "E">>)
          \/ Contains(slots[k].placeholder_type, <<"O", "B", "J", "E", "C", "T">>)
          \/ Contains(slots[k].placeholder_type, <<"M", "E", "D", "I", "A">>)
          \/ slots[k].semantic_role = "image_query",
      density |-> IF slot_count <= 2 THEN "low"
                  ELSE IF slot_count >= 5 THEN "high" ELSE "medium"]

(* The indexing run as a step machine: parse_template_node, then           *)
(* build_registry_node layout by layout.                                   *)

\* the layouts of a template: up to MaxShapes placeholders each, idx by position
IxLayoutsOf(name) ==
  { [name |-> name,
     placeholders |-> [k \in 1..n |-> [m[k] EXCEPT !.idx = k - 1]]] :
    n \in 0..MaxShapes, m \in [1..MaxShapes -> IxShapes] }

IxIdle == [pc |-> "idle"]

\* the graph's initial state: a readable template at template_path
IxStart(template) ==
  [pc |-> "start", template |-> template, raw_shape_data |-> <<>>,
   at |-> 0, analyzed_layouts |-> <<>>, json_description |-> PyNone]

\* node parse_template_node
IxParseTemplate ==
  /\ ix.pc = "start"
  /\ ix' = [ix EXCEPT !.pc = "build", !.raw_shape_data = parse_template_node(ix.template),
                      !.at = 1]

\* build_registry_node, a layout without shapes: continue
IxSkipLayout ==
  /\ ix.pc = "build"
  /\ ix.at <= Len(ix.raw_shape_data)
  /\ ix.raw_shape_data[ix.at].shapes = <<>>
  /\ ix' = [ix EXCEPT !.at = @ + 1]

\* build_registry_node, a layout with shapes: analyzed_layouts.append(metadata)
IxAnalyzeLayout ==
  /\ ix.pc = "build"
  /\ ix.at <= Len(ix.raw_shape_data)
  /\ ix.raw_shape_data[ix.at].shapes # <<>>
  /\ ix' = [ix EXCEPT !.at = @ + 1,
                      !.analyzed_layouts = Append(@, AnalyzeLayout(ix.raw_shape_data[ix.at]))]

\* return {"json_description": registry.model_dump()}
IxReturnRegistry ==
  /\ ix.pc = "build"
  /\ ix.at > Len(ix.raw_shape_data)
  /\ ix' = [ix EXCEPT !.pc = "done",
                      !.json_description = [layouts |-> ix.analyzed_layouts]]

IxInit ==
  /\ \E n \in 1..MaxLayouts, size \in IxSlideSizes :
       \E layouts \in [1..n -> IxLayoutsOf(<<"L">>)] :
         ix = IxStart([slide_width |-> size, slide_height |-> size, layouts |-> layouts])
  /\ md = MdIdle
  /\ bt = [pc |-> "idle"]
  /\ inj = [pc |-> "idle"]
  /\ fr = [pc |-> "idle"]
  /\ pol = [pc |-> "idle"]
  /\ ct = [pc |-> "idle"]
  /\ rc = [pc |-> "idle"]
  /\ ne = [pc |-> "idle"]

IxNext ==
  /\ \/ IxParseTemplate
     \/ IxSkipLayout
     \/ IxAnalyzeLayout
     \/ IxReturnRegistry
  /\ UNCHANGED <<md, bt, inj, fr, pol, ct, rc, ne>>

SpecIndex == IxInit /\ [][IxNext]_vars

----------------------------------------------------------------------------
(* The registry manager of src/nodes/Registry_builder.py: runs of the      *)
(* script on one template path, the template file being edited between     *)
(* runs. The file's content is one of a few contents; the slides a         *)
(* blueprint lists stand for what extraction reads from that content.      *)

\* contents of the file at the template path: two presentations and a file
\* that Presentation() cannot open
RcContents == {"deck v1", "deck v2", "not a pptx"}

\* the contents Presentation(pptx_path) opens
RcReadable == {"deck v1", "deck v2"}

\* get_file_hash(filepath): the MD5 digest of the content
get_file_hash(content) ==
  CASE content = "deck v1" -> PyStr(<<"9", "e">>)
    [] content = "deck v2" -> PyStr(<<"4", "c">>)
    [] content = "not a pptx" -> PyStr(<<"d", "4">>)

\* extract_superior_registry(pptx_path): {"error": ...} when the file cannot
\* be opened, else the blueprint with registry_metadata.file_hash
extract_superior_registry(content) ==
  IF content \notin RcReadable
  THEN [type |-> "dict", error |-> content]
  ELSE [type |-> "dict",
        registry_metadata |-> [file_hash |-> get_file_hash(content)],
        slides |-> content]

\* existing_data.get("registry_metadata", {}).get("file_hash")
StoredFileHash(existing_data) ==
  IF "registry_metadata" \in DOMAIN existing_data
  THEN existing_data.registry_metadata.file_hash
  ELSE PyNone

\* between two runs: the template and the registry file next to it
RcReady(template, registry_file, runs, last) ==
  [pc |-> "ready", template |-> template, registry_file |-> registry_file,
   runs |-> runs, last |-> last]

\* the template file is replaced between two runs
RcEditTemplate ==
  /\ rc.pc = "ready"
  /\ \E content \in RcContents \ {rc.template} :
       rc' = [rc EXCEPT !.template = content]

\* a run starts: current_hash = get_file_hash(args.template)
RcStartRun ==
  /\ rc.pc = "ready"
  /\ rc.runs < MaxIndexRuns
  /\ rc' = [rc EXCEPT !.pc = "hashed",
                      !.runs = @ + 1,
                      !.last = [before |-> rc.registry_file,
                                read |-> rc.template,
                                current_hash |-> get_file_hash(rc.template),
                                extracted |-> FALSE, wrote |-> FALSE,
                                output |-> PyNone]]

\* needs_rebuild stays True: no registry file, or another file_hash in it
RcNeedsRebuild ==
  \/ rc.registry_file = Absent
  \/ StoredFileHash(rc.registry_file) # rc.last.current_hash

\* the rebuild branch: extract, json.dump to the registry file, print
RcRebuild ==
  /\ rc.pc = "hashed"
  /\ RcNeedsRebuild
  /\ LET full_registry == extract_superior_registry(rc.template)
     IN rc' = [rc EXCEPT !.pc = "ready",
                         !.registry_file = full_registry,
                         !.last.extracted = TRUE,
                         !.last.wrote = TRUE,
                         !.last.output = full_registry]

\* the cached branch: print(f.read())
RcLoadCached ==
  /\ rc.pc = "hashed"
  /\ ~RcNeedsRebuild
  /\ rc' = [rc EXCEPT !.pc = "ready", !.last.output = rc.registry_file]

RcInit ==
  /\ \E content \in RcContents : rc = RcReady(content, Absent, 0, PyNone)
  /\ md = MdIdle
  /\ bt = [pc |-> "idle"]
  /\ inj = [pc |-> "idle"]
  /\ fr = [pc |-> "idle"]
  /\ pol = [pc |-> "idle"]
  /\ ct = [pc |-> "idle"]
  /\ ix = [pc |-> "idle"]
  /\ ne = [pc |-> "idle"]

RcNext ==
  /\ \/ RcEditTemplate
     \/ RcStartRun
     \/ RcRebuild
     \/ RcLoadCached
  /\ UNCHANGED <<md, bt, inj, fr, pol, ct, ix, ne>>

SpecCache == RcInit /\ [][RcNext]_vars

----------------------------------------------------------------------------
(* The hierarchy pass of extract_superior_registry for one slide           *)
(* (src/nodes/Registry_builder.py). Lengths are in EMU on a slide of       *)
(* 10000 x 10000 EMU; area_pct is kept in hundredths of a percent.         *)

\* sw, sh = prs.slide_width, prs.slide_height
NeSlideSizes == {<<10000, 10000>>}

\* the margin of is_concentric, in EMU
CONCENTRIC_MARGIN == 1000

\* is_concentric(inner_geo, outer_geo), rect format (left, top, width, height)
is_concentric(inner_geo, outer_geo) ==
  LET ix1 == inner_geo[1]
      iy1 == inner_geo[2]
      ix2 == ix1 + inner_geo[3]
      iy2 == iy1 + inner_geo[4]
      ox1 == outer_geo[1]
      oy1 == outer_geo[2]
      ox2 == ox1 + outer_geo[3]
      oy2 == oy1 + outer_geo[4]
  IN /\ ix1 >= ox1 - CONCENTRIC_MARGIN
     /\ iy1 >= oy1 - CONCENTRIC_MARGIN
     /\ ix2 <= ox2 + CONCENTRIC_MARGIN
     /\ iy2 <= oy2 + CONCENTRIC_MARGIN

\* round(((s_width * s_height) / (sw * sh)) * 100, 2) in hundredths of a
\* percent, halves rounded to even; sw * sh is a multiple of 10000
AreaPct(s_width, s_height, sw, sh) ==
  LET unit == (sw * sh) \div 10000
      q == (s_width * s_height) \div unit
      r == (s_width * s_height) % unit
  IN IF 2 * r > unit \/ (2 * r = unit /\ q % 2 = 1) THEN q + 1 ELSE q

\* the dict el built for one shape
Element(id, left, top, width, height, sw, sh) ==
  [id |-> id,
   geometry |-> [left |-> left, top |-> top, width |-> width, height |-> height,
                 area_pct |-> AreaPct(width, height, sw, sh)],
   children_ids |-> <<>>]

\* (left, top, width, height) of an element
GeoOf(el) == <<el.geometry.left, el.geometry.top, el.geometry.width, el.geometry.height>>

\* sorted(raw_elements, key=area_pct, reverse=True): a stable sort, elements
\* of equal area_pct keep their order
SortedByArea(raw_elements) ==
  LET before(m, k) ==
        \/ raw_elements[m].geometry.area_pct > raw_elements[k].geometry.area_pct
        \/ /\ raw_elements[m].geometry.area_pct = raw_elements[k].geometry.area_pct
           /\ m < k
      place(k) == 1 + Cardinality({m \in 1..Len(raw_elements) : before(m, k)})
  IN [p \in 1..Len(raw_elements) |->
        raw_elements[CHOOSE k \in 1..Len(raw_elements) : place(k) = p]]

\* [e for e in sorted_by_area if e["geometry"]["area_pct"] > 0.01]
WithoutArtifacts(sorted_by_area) ==
  SelectSeq(sorted_by_area, LAMBDA e : e.geometry.area_pct > 1)

\* (left, top, width, height) of the shapes of a slide: a large box, a box
\* inside it, a box inside both, a box within the margin of the second and
\* of its area, a box across the large box's corner, a box inside the large
\* box and the corner box, a line inside the large box, a dot inside it
NeRects ==
  { <<0, 0, 8000, 8000>>, <<1000, 1000, 4000, 4000>>, <<2000, 2000, 2000, 2000>>,
    <<500, 500, 4000, 4000>>, <<6000, 6000, 4000, 4000>>, <<6500, 6500, 1000, 1000>>,
    <<1000, 3000, 3000, 0>>, <<1000, 1000, 100, 100>> }

\* the slide's shapes have been read: raw_elements, shape ids by position
NeStart(rects, sw, sh) ==
  [pc |-> "sort", sw |-> sw, sh |-> sh,
   raw_elements |-> [k \in 1..Len(rects) |->
                       Element(k + 1, rects[k][1], rects[k][2], rects[k][3], rects[k][4], sw, sh)],
   sorted_by_area |-> <<>>, nested_ids |-> {}, outer_at |-> 0, inner_at |-> 0,
   elements |-> PyNone]

\* sorted_by_area = sorted(...); nested_ids = set()
NeSort ==
  /\ ne.pc = "sort"
  /\ ne' = [ne EXCEPT !.pc = "outer", !.sorted_by_area = SortedByArea(ne.raw_elements),
                      !.outer_at = 1]

\* if outer["id"] in nested_ids: continue
NeSkipOuter ==
  /\ ne.pc = "outer"
  /\ ne.outer_at <= Len(ne.sorted_by_area)
  /\ ne.sorted_by_area[ne.outer_at].id \in ne.nested_ids
  /\ ne' = [ne EXCEPT !.outer_at = @ + 1]

\* an outer element that is nobody's child: start on sorted_by_area[idx+1:]
NeEnterOuter ==
  /\ ne.pc = "outer"
  /\ ne.outer_at <= Len(ne.sorted_by_area)
  /\ ne.sorted_by_area[ne.outer_at].id \notin ne.nested_ids
  /\ ne' = [ne EXCEPT !.pc = "inner", !.inner_at = ne.outer_at + 1]

\* if inner["id"] in nested_ids: continue
NeSkipInner ==
  /\ ne.pc = "inner"
  /\ ne.inner_at <= Len(ne.sorted_by_area)
  /\ ne.sorted_by_area[ne.inner_at].id \in ne.nested_ids
  /\ ne' = [ne EXCEPT !.inner_at = @ + 1]

\* the inner element is not inside the outer one
NePass ==
  /\ ne.pc = "inner"
  /\ ne.inner_at <= Len(ne.sorted_by_area)
  /\ ne.sorted_by_area[ne.inner_at].id \notin ne.nested_ids
  /\ ~is_concentric(GeoOf(ne.sorted_by_area[ne.inner_at]), GeoOf(ne.sorted_by_area[ne.outer_at]))
  /\ ne' = [ne EXCEPT !.inner_at = @ + 1]

\* the append without the test of nested_ids
NeNestAgain ==
  /\ ne.pc = "inner"
  /\ ne.inner_at <= Len(ne.sorted_by_area)
  /\ is_concentric(GeoOf(ne.sorted_by_area[ne.inner_at]), GeoOf(ne.sorted_by_area[ne.outer_at]))
  /\ ne' = [ne EXCEPT !.inner_at = @ + 1,
                      !.sorted_by_area[ne.outer_at].children_ids =
                         Append(@, ne.sorted_by_area[ne.inner_at].id),
                      !.nested_ids = @ \cup {ne.sorted_by_area[ne.inner_at].id}]

\* outer["children_ids"].append(inner["id"]); nested_ids.add(inner["id"])
NeNest ==
  /\ ne.pc = "inner"
  /\ ne.inner_at <= Len(ne.sorted_by_area)
  /\ ne.sorted_by_area[ne.inner_at].id \notin ne.nested_ids
  /\ is_concentric(GeoOf(ne.sorted_by_area[ne.inner_at]), GeoOf(ne.sorted_by_area[ne.outer_at]))
  /\ ne' = [ne EXCEPT !.inner_at = @ + 1,
                      !.sorted_by_area[ne.outer_at].children_ids =
                         Append(@, ne.sorted_by_area[ne.inner_at].id),
                      !.nested_ids = @ \cup {ne.sorted_by_area[ne.inner_at].id}]

\* the inner loop is exhausted: next outer element
NeNextOuter ==
  /\ ne.pc = "inner"
  /\ ne.inner_at > Len(ne.sorted_by_area)
  /\ ne' = [ne EXCEPT !.pc = "outer", !.outer_at = @ + 1]

\* slide_data["elements"] = the elements that are no zero-area artifacts
NeFilter ==
  /\ ne.pc = "outer"
  /\ ne.outer_at > Len(ne.sorted_by_area)
  /\ ne' = [ne EXCEPT !.pc = "done", !.elements = PyList(WithoutArtifacts(ne.sorted_by_area))]

NeInit ==
  /\ \E n \in 0..MaxElements, size \in NeSlideSizes :
       \E rects \in [1..n -> NeRects] : ne = NeStart(rects, size[1], size[2])
  /\ md = MdIdle
  /\ bt = [pc |-> "idle"]
  /\ inj = [pc |-> "idle"]
  /\ fr = [pc |-> "idle"]
  /\ pol = [pc |-> "idle"]
  /\ ct = [pc |-> "idle"]
  /\ ix = [pc |-> "idle"]
  /\ rc = [pc |-> "idle"]

NeNext ==
  /\ \/ NeSort
     \/ NeSkipOuter
     \/ NeEnterOuter
     \/ NeSkipInner
     \/ NePass
     \/ NeNest
     \/ NeNextOuter
     \/ NeFilter
  /\ UNCHANGED <<md, bt, inj, fr, pol, ct, ix, rc>>

SpecNesting == NeInit /\ [][NeNext]_vars

----------------------------------------------------------------------------
(* Properties of parse_markdown *)

MdDone == md.pc = "done"

\* a `**` or `*` was still open when the scan ended
MdUnbalanced == md.st.bold_on \/ md.st.italic_on

RECURSIVE DropMarkers(_, _, _)
\* the string s from index i on with every delimiter marker removed; an
\* escape pair (backslash and the character after it) is not a delimiter:
\* it is kept whole (keepBackslash) or reduced to the escaped character
DropMarkers(s, i, keepBackslash) ==
  IF i >= Len(s) THEN <<>>
  ELSE IF At(s, i) = "\\" /\ i + 1 < Len(s)
    THEN (IF keepBackslash THEN <<"\\", At(s, i + 1)>> ELSE <<At(s, i + 1)>>)
         \o DropMarkers(s, i + 2, keepBackslash)
  ELSE IF StartsWith(s, MD_BOLD, i) /\ IsBoundary(s, i) /\ IsBoundary(s, i + 2)
    THEN DropMarkers(s, i + 2, keepBackslash)
  ELSE IF At(s, i) = MD_ITALIC /\ IsBoundary(s, i) /\ IsBoundary(s, i + 1)
    THEN DropMarkers(s, i + 1, keepBackslash)
  ELSE <<At(s, i)>> \o DropMarkers(s, i + 1, keepBackslash)

\* C4: when a bold or italic delimiter is still open at the end of the scan,
\* the result is exactly one plain run whose text is the input verbatim,
\* delimiter characters included.
C4_UnbalancedVerbatim ==
  (MdDone /\ MdUnbalanced) => md.result = <<PlainRun(md.s)>>

\* the scanner stands on a `**` or `*` that has an alphanumeric character
\* directly before it and directly after it
InWordDelimiter(st) ==
  /\ st.i >= 1
  /\ st.i < Len(st.s)
  /\ ~AtEscape(st)
  /\ At(st.s, st.i) = "*"
  /\ IsAlnum(At(st.s, st.i - 1))
  /\ LET w == IF StartsWith(st.s, MD_BOLD, st.i) THEN 2 ELSE 1
     IN st.i + w < Len(st.s) /\ IsAlnum(At(st.s, st.i + w))

\* C5: a delimiter with an alphanumeric character directly before and
\* directly after it never toggles bold or italic and stays in the text as a
\* literal character.
C5_NoToggleInsideWord ==
  [][(md.pc = "scan" /\ InWordDelimiter(md.st))
       => /\ md'.st.bold_on = md.st.bold_on
          /\ md'.st.italic_on = md.st.italic_on
          /\ md'.st.buf = Append(md.st.buf, "*")]_vars

C7_NoStarSinglePlainRun ==
  (MdDone /\ md.s # <<>> /\ \A k \in 1..Len(md.s) : md.s[k] # "*")
    => md.result = <<PlainRun(md.s)>>

\* the step of the scanner consumes a `*` that directly follows a backslash:
\* either it stands on that backslash or on the `*` itself
ConsumesStarAfterBackslash(st) ==
  \/ /\ st.i + 1 < Len(st.s)
     /\ At(st.s, st.i) = "\\"
     /\ At(st.s, st.i + 1) = "*"
  \/ /\ st.i >= 1
     /\ st.i < Len(st.s)
     /\ At(st.s, st.i - 1) = "\\"
     /\ At(st.s, st.i) = "*"

\* the step appends a literal `*` to the current run and toggles nothing
EmitsLiteralStar ==
  /\ md'.st.buf = Append(md.st.buf, "*")
  /\ md'.st.runs = md.st.runs
  /\ md'.st.bold_on = md.st.bold_on
  /\ md'.st.italic_on = md.st.italic_on

ExEscapedResult ==
  <<PlainRun(<<"*", "n", "o", "t", " ", "i", "t", "a", "l", "i", "c", "*">>)>>

----------------------------------------------------------------------------
(* Properties of beautifier_node *)

\* a manifest item has just been styled and appended
BtAppended == bt.pc = "appended"

\* the content entries of the manifest item just styled
BtContent ==
  IF Truthy(bt.slide.content) /\ bt.slide.content.type = "dict"
  THEN bt.slide.content.entries ELSE <<>>

\* the Style Specifications emitted for the field `key` of the item just
\* styled: on the semantic path they carry the field name as semantic_role,
\* on the slot-id path they are stored under the field's own key
BtStylesOf(key) ==
  LET out == bt.beautified_last.content
  IN {out[n].value : n \in {m \in 1..Len(out) :
        IF bt.beautified_last.is_semantic
        THEN out[m].value.semantic_role = Sym(key)
        ELSE out[m].key = key}}

\* C9: a field whose content is None is emitted with runs whose text is the
\* empty string, never the string "None", on the slot-id path and on the
\* semantic path alike.
C9_NoneContentGivesEmptyText ==
  BtAppended =>
    \A n \in 1..Len(BtContent) :
      BtContent[n].value = PyNone =>
        \A style \in BtStylesOf(BtContent[n].key) :
          /\ style.runs # Absent
          /\ \A k \in 1..Len(style.runs.items) : style.runs.items[k].text = <<>>

BigLaunchRuns ==
  <<[text |-> <<"B", "i", "g">>, bold |-> TRUE, italic |-> FALSE],
    [text |-> <<" ", "L", "a", "u", "n", "c", "h">>, bold |-> FALSE, italic |-> FALSE]>>

\* content: {title: "**Big** Launch", body: "Plain body text"}
ScenarioContent ==
  PyDict(<<[key |-> "title", value |-> PyStr(ExBigLaunch)],
           [key |-> "body", value |-> PyStr(ExPlainBody)]>>)

\* the item of the scenario has been styled against the registry of the
\* scenario (one layout with one title and one body slot)
ScenarioStyled ==
  /\ BtAppended
  /\ bt.registry.layouts = <<LayoutA>>
  /\ bt.slide.layout_index = 0
  /\ bt.slide.slide_role = Absent
  /\ bt.slide.content = ScenarioContent

\* the output item holds the styled title and the styled body of the scenario
ScenarioOutput ==
  LET out == bt.beautified_last.content
  IN /\ DictKeys(out) = {"0", "1"}
     /\ DictGet(out, "0").runs = PyList(BigLaunchRuns)
     /\ DictGet(out, "0").alignment = Sym("CENTER")
     /\ DictGet(out, "1").runs = PyList(<<PlainRun(ExPlainBody)>>)
     /\ DictGet(out, "1").alignment = PyNone

\* the field names that are styled on the semantic path
StyledFieldKey(key) ==
  key # "image_query" /\ ~StartsWith(Chars(key), <<"_">>, 0)

\* the layout of the registry the item is styled against
BtLayout ==
  LET l == LayoutByIdx(bt.registry.layouts, bt.slide.layout_index)
  IN IF l = PyNone THEN bt.registry.layouts[1] ELSE l

BtMapped(key) ==
  LET mapping == Get(bt.slide.semantic_mapping, PyDict(<<>>)).entries
  IN IF DictHas(mapping, key) THEN DictGet(mapping, key) ELSE <<>>

\* the field is styled: its name is a styled one and the first slot that the
\* item's _semantic_mapping lists for it has a slot_id
BtResolvable(key) ==
  /\ StyledFieldKey(key)
  /\ BtMapped(key) # <<>>
  /\ BtMapped(key)[1].slot_id \notin {Absent, PyNone}

BtFallback ==
  /\ BtAppended
  /\ LayoutByIdx(bt.registry.layouts, bt.slide.layout_index) = PyNone

\* C11: a manifest item whose layout_index matches no layout of the registry
\* is styled against the first layout: the output item's layout_index is the
\* first layout's index and each of its content fields gets a Style
\* Specification.
C11_UnknownLayoutStillStyled ==
  BtFallback =>
    /\ bt.beautified_last.layout_index = bt.registry.layouts[1].layout_index
    /\ \A n \in 1..Len(BtContent) :
         (bt.beautified_last.is_semantic => StyledFieldKey(BtContent[n].key))
           => BtStylesOf(BtContent[n].key) # {}

\* the state lacks 'manifest' or 'registry', or the registry has no layout
BtInvalidInput ==
  ~bt.has_manifest \/ ~bt.has_registry \/ bt.registry.layouts = <<>>

\* C12: beautifier_node raises, before it styles any slide, exactly when the
\* state has no 'manifest' or no 'registry' key or the registry has no
\* layout, whatever the length of the manifest; with at least one layout and
\* both keys it enters the loop.
C12_HardErrorOnInvalidInput ==
  /\ [][bt.pc = "start" =>
          IF BtInvalidInput THEN bt'.pc = "raised" ELSE bt'.pc = "loop"]_vars
  /\ [](bt.pc = "raised" => (BtInvalidInput /\ "beautified_len" \notin DOMAIN bt))

\* the error of a registry without layouts, raised for an empty manifest
C12_Witness ==
  /\ bt.pc = "raised"
  /\ bt.has_manifest /\ bt.has_registry
  /\ bt.registry.layouts = <<>>
  /\ bt.manifest_len = 0

\* the content entries of the item just styled whose key is no integer
BtNonNumeric ==
  {n \in 1..Len(BtContent) : BtContent[n].key \notin {"0", "1", "2", "3"}}

\* C13 as stated: a content field whose slot identifier is no integer is
\* skipped, the output item holds no Style Specification under that key,
\* and the other fields of the slide are styled.
C13_NonNumericFieldSkipped ==
  (BtAppended /\ ~bt.beautified_last.is_semantic) =>
    \A n \in 1..Len(BtContent) :
      DictHas(bt.beautified_last.content, BtContent[n].key) <=> n \notin BtNonNumeric

\* the Style Specification of a field without slot metadata
BtFallbackStyle(raw_text) ==
  RunsStyle(parse_markdown(IF raw_text = PyNone THEN PyStr(<<>>) ELSE raw_text),
            PyInt(FONT_SIZE_FALLBACK), Sym("LEFT"), Absent)

\* C13 amended: a content field whose slot identifier is no integer is not
\* skipped: it is styled under its own key as a field without slot metadata
\* (runs parsed from its text, font size 16, alignment LEFT), every other
\* field of the slide is styled as well, and no exception is raised.
C13_NonNumericFieldStyledWithoutMetadata ==
  (BtAppended /\ ~bt.beautified_last.is_semantic) =>
    /\ \A n \in 1..Len(BtContent) :
         DictHas(bt.beautified_last.content, BtContent[n].key)
    /\ \A n \in BtNonNumeric :
         DictGet(bt.beautified_last.content, BtContent[n].key)
           = BtFallbackStyle(BtContent[n].value)

\* a slide with a field keyed "x" next to a numeric one has been styled
C13_Witness ==
  /\ BtAppended
  /\ ~bt.beautified_last.is_semantic
  /\ BtNonNumeric # {}
  /\ \E n \in 1..Len(BtContent) : n \notin BtNonNumeric
  /\ DictKeys(bt.beautified_last.content) = {BtContent[n].key : n \in 1..Len(BtContent)}

----------------------------------------------------------------------------
(* Properties of surgical_injection_node *)

\* the renderer has finished with a field whose placeholder it found
InjFieldDone == inj.pc = "rendered" /\ inj.frame # PyNone

\* the Style Specification has no run whose text is non-empty after trimming
\* and no non-empty bullet list
InjNoContent(style) ==
  /\ style.type = "dict"
  /\ \A k \in 1..Len(ItemsOrEmpty(style.runs)) :
       Strip(ItemsOrEmpty(style.runs)[k].text) = <<>>
  /\ ItemsOrEmpty(style.bullets) = <<>>

\* the text frame was never cleared and still holds its original text
InjUntouched ==
  /\ inj.frame.clear_calls = 0
  /\ FrameText(inj.frame) = inj.original.chars

\* the text frame holds at least one run with non-empty text
InjPopulated ==
  \E p \in 1..Len(inj.frame.paragraphs) :
    \E r \in 1..Len(inj.frame.paragraphs[p].runs) :
      inj.frame.paragraphs[p].runs[r].text # <<>>

\* C1: on the semantic path and on the slot-id path alike, a field whose
\* Style Specification has no run with non-empty trimmed text and no
\* non-empty bullet list never has its text frame cleared, and the frame's
\* text after rendering is the template's original text.
C1_EmptyFieldKeepsTemplateText ==
  (InjFieldDone /\ InjNoContent(inj.style)) => InjUntouched

\* C2: once the renderer has finished with a field, the target placeholder
\* either was never cleared and holds its original text, or holds at least
\* one run with non-empty text; no field is left cleared and not repopulated.
C2_NoFieldLeftClearedAndEmpty ==
  InjFieldDone => (InjUntouched \/ InjPopulated)

\* C3: no failure of a field or of a slide (a placeholder that is not found,
\* a slot id that is no number, a malformed style entry, a layout_index the
\* template does not have) is raised to the caller of
\* surgical_injection_node.
C3_FailuresAreNeverRaised == inj.pc # "raised"

----------------------------------------------------------------------------
(* Properties of find_placeholder_by_semantic_role *)

\* the first slot of the registry with the requested role
FrTarget ==
  LET with_role == {k \in 1..Len(fr.slot_metadata) :
                      fr.slot_metadata[k].semantic_role = fr.semantic_role}
  IN fr.slot_metadata[CHOOSE k \in with_role : \A o \in with_role : k <= o]

\* the live placeholders a tier accepts for the target slot, as positions
FrByIdx ==
  {k \in 1..Len(fr.placeholders) :
     /\ FrTarget.placeholder_idx \notin {Absent, PyNone}
     /\ fr.placeholders[k].idx = FrTarget.placeholder_idx.val}

FrByType ==
  {k \in 1..Len(fr.placeholders) :
     /\ FrTarget.placeholder_type # Absent
     /\ FrTarget.placeholder_type.chars # <<>>
     /\ Contains(fr.placeholders[k].ph_type, TypeName(FrTarget.placeholder_type.chars))}

FrByName ==
  {k \in 1..Len(fr.placeholders) :
     /\ FrTarget.placeholder_name # Absent
     /\ fr.placeholders[k].name = FrTarget.placeholder_name.sym}

\* the first placeholder of the slide among the positions S
FrFirst(S) == fr.placeholders[CHOOSE k \in S : \A o \in S : k <= o]

\* C14: find_placeholder_by_semantic_role takes the first registry slot with
\* the role and returns the first live placeholder with its placeholder_idx,
\* else the first whose type string contains the slot's type name, else the
\* first with exactly its placeholder_name; it returns None when no slot has
\* the role or all three miss, and no call ends other than by returning
C14_ThreeTierResolution ==
  /\ fr.pc \in {"called", "done"}
  /\ fr.pc = "done" =>
       IF \A k \in 1..Len(fr.slot_metadata) :
            fr.slot_metadata[k].semantic_role # fr.semantic_role
       THEN fr.result = PyNone
       ELSE fr.result = IF FrByIdx # {} THEN FrFirst(FrByIdx)
                        ELSE IF FrByType # {} THEN FrFirst(FrByType)
                        ELSE IF FrByName # {} THEN FrFirst(FrByName)
                        ELSE PyNone

\* a slot whose idx matches nothing and whose type name only occurs within
\* the type string of the live placeholder is resolved through tier 2
C14_Witness ==
  /\ fr.pc = "done"
  /\ C14_ThreeTierResolution
  /\ fr.tier = 2
  /\ Len(fr.slot_metadata) = 2
  /\ fr.slot_metadata[1].semantic_role # fr.semantic_role
  /\ FrTarget.placeholder_idx = PyInt(5)
  /\ FrTarget.placeholder_type = PyStr(TypeTitle)
  /\ fr.result.ph_type = TypeSubtitle

\* the field at hand carries text to write: a run with non-blank text
InjHasRunText ==
  /\ inj.style.type = "dict"
  /\ inj.style.runs \notin {Absent, PyNone}
  /\ \E k \in 1..Len(inj.style.runs.items) : Strip(inj.style.runs.items[k].text) # <<>>

\* the field at hand names no live idx, yet the registry slot of its role
\* matches a live text placeholder by type or name
InjResolvableByRole ==
  /\ InjHasRunText
  /\ inj.style.bullets = Absent
  /\ inj.style.semantic_role \notin {Absent, PyNone, Sym("image_query")}
  /\ IntOfKey(inj.slot_id) # Absent
  /\ find_placeholder_by_id(InjLayouts[inj.layout_idx + 1], IntOfKey(inj.slot_id).val) = PyNone
  /\ LET shape == find_placeholder_by_semantic_role(InjLayouts[inj.layout_idx + 1],
                     inj.style.semantic_role, InjSlotMetadata[inj.layout_idx + 1])
     IN shape # PyNone /\ shape.has_text_frame

\* C15: surgical_injection_node resolves every styled field through the
\* three-tier chain: a field whose slot id equals no live idx but whose
\* registry type or name matches a live placeholder is written, not skipped
C15_FieldResolvedThroughTiers ==
  (inj.pc = "rendered" /\ InjResolvableByRole) => inj.outcome = "rendered"

\* the live placeholder the field at hand was written to or compared with
InjShape ==
  find_placeholder_by_id(InjLayouts[inj.layout_idx + 1], IntOfKey(inj.slot_id).val)

\* C16: a placeholder of declared type title, centre title or subtitle is
\* never treated as boilerplate: for the placeholder type surgical_injection_node
\* passes on either path, _is_template_header returns False whatever the text
C16_TitlePlaceholderNeverHeader ==
  (InjFieldDone /\ InjShape.ph_type \in {TypeTitle, TypeCenterTitle, TypeSubtitle})
    => ~inj.header

RECURSIVE InjExpectedRuns(_)
\* the runs of a Style Specification with non-empty text, in order, each with
\* its flags, the font size of the field and the colour of the slide
InjExpectedRuns(runs) ==
  IF runs = <<>> THEN <<>>
  ELSE (IF Head(runs).text # <<>>
        THEN <<[text |-> Head(runs).text, bold |-> Head(runs).bold,
                italic |-> Head(runs).italic, size |-> FontSizeOf(inj.style),
                white |-> inj.has_background]>>
        ELSE <<>>) \o InjExpectedRuns(Tail(runs))

\* C17: for every field written from runs, on either path, the runs of the
\* placeholder after rendering are exactly the runs of the Style Specification
\* with non-empty text, in order, with their flags and the font size
C17_RunsRenderedAsSpecified ==
  (inj.pc = "rendered" /\ inj.outcome = "rendered" /\ InjHasRunText
     /\ inj.style.bullets = Absent)
    => /\ Len(inj.frame.paragraphs) = 1
       /\ inj.frame.paragraphs[1].runs = InjExpectedRuns(inj.style.runs.items)

----------------------------------------------------------------------------
(* Properties of _alignment_for_role and _determine_font_size *)

\* the role hint, lower-cased, contains the word
PolHintHas(word) ==
  /\ pol.role_hint # PyNone
  /\ Contains(Lower(pol.role_hint.chars), word)

PolCenterWord ==
  \/ PolHintHas(<<"t", "i", "t", "l", "e">>)
  \/ PolHintHas(<<"h", "e", "a", "d", "e", "r">>)
  \/ PolHintHas(<<"h", "e", "a", "d", "l", "i", "n", "e">>)
  \/ PolHintHas(<<"s", "e", "c", "t", "i", "o", "n", "-", "t", "i", "t", "l", "e">>)
  \/ PolHintHas(<<"t", "a", "g", "l", "i", "n", "e">>)
  \/ PolHintHas(<<"c", "a", "p", "t", "i", "o", "n">>)
  \/ PolHintHas(<<"q", "u", "o", "t", "e">>)
  \/ PolHintHas(<<"c", "e", "n", "t", "e", "r">>)

PolNumberWord ==
  \/ PolHintHas(<<"n", "u", "m", "b", "e", "r">>)
  \/ PolHintHas(<<"v", "a", "l", "u", "e">>)
  \/ PolHintHas(<<"m", "e", "t", "r", "i", "c">>)

PolAlwaysCentered == pol.slide_role = Sym("TITLE") \/ pol.semantic_role = Sym("title")

PolTitleWord ==
  \/ PolHintHas(<<"t", "i", "t", "l", "e">>)
  \/ PolHintHas(<<"h", "e", "a", "d", "e", "r">>)
  \/ PolHintHas(<<"h", "e", "a", "d", "l", "i", "n", "e">>)

PolBodyWord == PolHintHas(<<"b", "o", "d", "y">>)

PolContentWord == PolHintHas(<<"c", "o", "n", "t", "e", "n", "t">>)

PolFooterWord == PolHintHas(<<"f", "o", "o", "t", "e", "r">>)

\* the sizes of title, body, content and footer hints on a slide that is no
\* title slide, area_ratio in thousandths, the named hints being TitleLike
PolSizeOffTitleSlide(TitleLike) ==
  IF TitleLike THEN (IF pol.area_ratio > 50 THEN 32 ELSE 28)
  ELSE IF PolBodyWord THEN (IF pol.area_ratio > 300 THEN 22 ELSE 18)
  ELSE IF PolContentWord THEN (IF pol.area_ratio > 150 THEN 16 ELSE 14)
  ELSE IF PolFooterWord THEN 10
  ELSE 16

\* C19 as stated: off a TITLE slide, 32 above area 0.05 else 28 for a title
\* hint, 22 above 0.3 else 18 for body, 16 above 0.15 else 14 for content,
\* 10 for footer, 16 for any other or missing hint
C19_FontSizeByRoleAndArea ==
  (pol.pc = "sized" /\ pol.slide_role # Sym("TITLE")) =>
    pol.font_size = PolSizeOffTitleSlide(PolHintHas(<<"t", "i", "t", "l", "e">>))

\* C19, amended: the title sizes also apply to a hint containing header or
\* headline; the thresholds are strict
C19_FontSizeByRoleAndAreaWithHeaders ==
  (pol.pc = "sized" /\ pol.slide_role # Sym("TITLE")) =>
    pol.font_size = PolSizeOffTitleSlide(PolTitleWord)

\* a body hint with an area exactly at its threshold gets the smaller size
C19_Witness ==
  /\ pol.pc = "sized"
  /\ pol.slide_role = Sym("CONTENT")
  /\ pol.role_hint = PyStr(<<"b", "o", "d", "y">>)
  /\ pol.area_ratio = 300
  /\ pol.font_size = 18

\* C20: on a TITLE slide _determine_font_size returns 44 for the hint title,
\* 28 for subtitle and 11 for footer, whatever the area ratio
C20_TitleSlideSizes ==
  (pol.pc = "sized" /\ pol.slide_role = Sym("TITLE")) =>
    /\ pol.role_hint = PyStr(<<"t", "i", "t", "l", "e">>) => pol.font_size = 44
    /\ pol.role_hint = PyStr(<<"s", "u", "b", "t", "i", "t", "l", "e">>) => pol.font_size = 28
    /\ pol.role_hint = PyStr(<<"f", "o", "o", "t", "e", "r">>) => pol.font_size = 11

\* C21: for the role hint title and every area_ratio, the size returned for a
\* TITLE slide is at least the size returned for any other slide role with
\* the same area_ratio
C21_TitleSlideAtLeastAsLarge ==
  (pol.pc = "sized" /\ pol.role_hint = PyStr(<<"t", "i", "t", "l", "e">>)
     /\ pol.slide_role = Sym("TITLE"))
    => \A other \in PolSlideRoles \ {Sym("TITLE")} :
         pol.font_size >= determine_font_size(pol.role_hint, pol.area_ratio, other)

\* a title on a TITLE slide whose area puts the same title at its large size
\* on any other slide
C21_Witness ==
  /\ pol.pc = "sized"
  /\ pol.role_hint = PyStr(<<"t", "i", "t", "l", "e">>)
  /\ pol.slide_role = Sym("TITLE")
  /\ pol.area_ratio = 900
  /\ pol.font_size = 44
  /\ determine_font_size(pol.role_hint, pol.area_ratio, Sym("CONTENT")) = 32

----------------------------------------------------------------------------
(* Properties of _fit_text_in_circle *)

\* a text of words separated by single spaces
CtPlainWords(text) ==
  /\ text # <<>>
  /\ text[1] # " "
  /\ text[Len(text)] # " "
  /\ \A k \in 1..(Len(text) - 1) : ~(text[k] = " " /\ text[k + 1] = " ")

\* C22: for one circle and two plain strings, the size returned for the
\* string with fewer characters is never strictly smaller than the size
\* returned for the string with more characters
C22_ShorterTextNeverSmaller ==
  (ct.pc = "done" /\ ct.prev # PyNone
     /\ CtPlainWords(ct.text) /\ CtPlainWords(ct.prev.text))
    => /\ Len(ct.text) < Len(ct.prev.text) => ct.result >= ct.prev.result
       /\ Len(ct.prev.text) < Len(ct.text) => ct.prev.result >= ct.result

\* C23: _fit_text_in_circle returns an integer within [8, 72], and exactly 8
\* without a pass of the search when the text is empty, the radius is <= 0
\* or the radius shrunk by padding_ratio is <= 0
C23_FittedSizeInRange ==
  ct.pc = "done" =>
    /\ ct.result \in 8..72
    /\ (ct.text = <<>> \/ ct.radius <= 0 \/ ct.padding_ratio >= 10)
         => (ct.result = 8 /\ ct.iterations = 0)

\* padding that takes all of a positive radius gives 8 with no search, and
\* the same text in a padded circle that leaves room is searched for
C23_Witness ==
  /\ ct.pc = "done"
  /\ ct.text # <<>>
  /\ ct.radius > 0
  /\ ct.padding_ratio = 10
  /\ ct.result = 8
  /\ ct.iterations = 0

\* the field at hand was written on the semantic path from a list of n >= 1
\* bullet items
InjBulletsWritten ==
  /\ inj.pc = "rendered"
  /\ inj.is_semantic
  /\ inj.outcome = "rendered"
  /\ inj.style.bullets \notin {Absent, PyNone}
  /\ Len(inj.style.bullets.items) >= 1

\* C28: after a bullet-list field with n >= 1 items is written, the text
\* frame holds exactly n paragraphs, the i-th carrying the runs (those with
\* text) of the i-th bullet, whether clear() left one paragraph or none
C28_OneParagraphPerBullet ==
  InjBulletsWritten =>
    /\ Len(inj.frame.paragraphs) = Len(inj.style.bullets.items)
    /\ \A i \in 1..Len(inj.style.bullets.items) :
         inj.frame.paragraphs[i].runs
           = InjExpectedRuns(inj.style.bullets.items[i].runs.items)

\* two bullets, the second with text, written as two paragraphs
C28_Witness ==
  /\ InjBulletsWritten
  /\ Len(inj.style.bullets.items) = 2
  /\ Len(inj.frame.paragraphs) = 2
  /\ inj.frame.paragraphs[1].runs = <<>>
  /\ Len(inj.frame.paragraphs[2].runs) = 1
  /\ inj.frame.paragraphs[2].runs[1].text = TxtHi

----------------------------------------------------------------------------
(* Properties of parse_template_node and build_registry_node *)

\* C24: indexing a readable template yields a registry with one Layout
\* Descriptor for every layout of the template; a layout without
\* placeholders appears with zero slots
C24_DescriptorForEveryLayout ==
  ix.pc = "done" =>
    /\ Len(ix.json_description.layouts) = Len(ix.template.layouts)
    /\ \A i \in 1..Len(ix.template.layouts) :
         \E k \in 1..Len(ix.json_description.layouts) :
           /\ ix.json_description.layouts[k].layout_index = i - 1
           /\ Len(ix.json_description.layouts[k].slots)
                = Len(ix.template.layouts[i].placeholders)

\* the number of slots of a Layout Descriptor with the given role_hint
IxRoleCount(layout, role_hint) ==
  Cardinality({k \in 1..Len(layout.slots) : layout.slots[k].role_hint = role_hint})

\* the classification rules as stated, first match wins
IxStatedPurpose(layout) ==
  IF IxRoleCount(layout, "title") = Len(layout.slots) THEN "TITLE_SLIDE"
  ELSE IF \E k \in 1..Len(layout.slots) : layout.slots[k].content_type = "image"
       THEN "VISUAL_SLIDE"
  ELSE IF IxRoleCount(layout, "content") >= 2 THEN "COMPARISON_SLIDE"
  ELSE IF IxRoleCount(layout, "body") >= 1 THEN "CONTENT_SLIDE"
  ELSE "GENERAL_CONTENT"

\* C25: every indexed layout is classified by the stated rules: only title
\* regions, else any image-typed region, else two content-role regions, else
\* a body-role region, else GENERAL_CONTENT
C25_LayoutPurposeByComposition ==
  ix.pc = "done" =>
    \A k \in 1..Len(ix.json_description.layouts) :
      ix.json_description.layouts[k].layout_purpose
        = IxStatedPurpose(ix.json_description.layouts[k])

\* C26: for every shape of every layout parse_template_node returns,
\* norm_left, norm_top, norm_width and norm_height are non-negative and
\* area_ratio lies in [0, 1] (0..400 four-hundredths)
C26_GeometryInRange ==
  ix.pc \in {"build", "done"} =>
    \A i \in 1..Len(ix.raw_shape_data) :
      \A k \in 1..Len(ix.raw_shape_data[i].shapes) :
        LET shape == ix.raw_shape_data[i].shapes[k]
        IN /\ shape.norm_left >= 0
           /\ shape.norm_top >= 0
           /\ shape.norm_width >= 0
           /\ shape.norm_height >= 0
           /\ shape.area_ratio \in 0..400

----------------------------------------------------------------------------
(* Properties of the registry manager *)

\* a run has ended
RcRunEnded == rc.pc = "ready" /\ rc.runs >= 1

\* the run found a stored registry whose file_hash is the current hash
RcFoundCurrent ==
  /\ rc.last.before # Absent
  /\ StoredFileHash(rc.last.before) = rc.last.current_hash

\* C27: a run that finds a stored registry with the current file's hash
\* extracts nothing, writes nothing and outputs the stored document; any
\* other run rebuilds and stores the registry; after every run the stored
\* file_hash is the hash of the template as read in that run
C27_CacheKeyedByContentHash ==
  RcRunEnded =>
    /\ RcFoundCurrent =>
         /\ ~rc.last.extracted
         /\ ~rc.last.wrote
         /\ rc.last.output = rc.last.before
         /\ rc.registry_file = rc.last.before
    /\ ~RcFoundCurrent =>
         /\ rc.last.extracted
         /\ rc.last.wrote
         /\ rc.registry_file = rc.last.output
    /\ rc.registry_file # Absent
    /\ StoredFileHash(rc.registry_file) = get_file_hash(rc.last.read)

----------------------------------------------------------------------------
(* Properties of the hierarchy pass of extract_superior_registry *)

\* the elements the pass works on, once sorted
NeSorted == ne.pc \in {"outer", "inner", "done"}

\* the positions of the elements that list id among their children_ids
NeParentsOf(id) ==
  {p \in 1..Len(ne.sorted_by_area) :
     \E c \in 1..Len(ne.sorted_by_area[p].children_ids) :
       ne.sorted_by_area[p].children_ids[c] = id}

\* the box of the element with the given id lies within the box of parent
\* widened by 1000 EMU on every side
NeWithinWidened(id, parent) ==
  \E k \in 1..Len(ne.sorted_by_area) :
    LET child == ne.sorted_by_area[k].geometry
        outer == parent.geometry
    IN /\ ne.sorted_by_area[k].id = id
       /\ child.left >= outer.left - 1000
       /\ child.top >= outer.top - 1000
       /\ child.left + child.width <= outer.left + outer.width + 1000
       /\ child.top + child.height <= outer.top + outer.height + 1000

\* C29: the regions are visited by area descending, a region becomes a child
\* only of a region whose widened box holds its box, and each region id is
\* in the children_ids of at most one region, once
C29_NestedAtMostOnce ==
  NeSorted =>
    /\ \A p \in 1..(Len(ne.sorted_by_area) - 1) :
         ne.sorted_by_area[p].geometry.area_pct >= ne.sorted_by_area[p + 1].geometry.area_pct
    /\ \A p \in 1..Len(ne.sorted_by_area) :
         LET children_ids == ne.sorted_by_area[p].children_ids
         IN /\ \A c \in 1..Len(children_ids) :
                 NeWithinWidened(children_ids[c], ne.sorted_by_area[p])
            /\ \A c, e \in 1..Len(children_ids) :
                 children_ids[c] = children_ids[e] => c = e
    /\ \A k \in 1..Len(ne.sorted_by_area) :
         Cardinality(NeParentsOf(ne.sorted_by_area[k].id)) <= 1

\* a box inside two boxes that do not hold each other is the child of the
\* larger one only, and was passed over under the other
C29_Witness ==
  /\ ne.pc = "done"
  /\ \E k, a, b \in 1..Len(ne.sorted_by_area) :
       /\ a < b /\ b < k
       /\ is_concentric(GeoOf(ne.sorted_by_area[k]), GeoOf(ne.sorted_by_area[a]))
       /\ is_concentric(GeoOf(ne.sorted_by_area[k]), GeoOf(ne.sorted_by_area[b]))
       /\ ~is_concentric(GeoOf(ne.sorted_by_area[b]), GeoOf(ne.sorted_by_area[a]))
       /\ NeParentsOf(ne.sorted_by_area[k].id) = {a}

\* C30: in the slide's elements list every id of an element's children_ids
\* is the id of an element of the list, after the final filter
C30_ChildrenArePresent ==
  ne.pc = "done" =>
    \A p \in 1..Len(ne.elements.items) :
      \A c \in 1..Len(ne.elements.items[p].children_ids) :
        \E k \in 1..Len(ne.elements.items) :
          ne.elements.items[k].id = ne.elements.items[p].children_ids[c]

====
